---- MODULE Spec2Model ----
(***************************************************************************)
(* A model of the session replay pipeline of record-tui:                   *)
(*   - the batch metadata stripper and sequence neutralizers (Go),         *)
(*   - the offset mappers of the offset-tracking neutralizers (Go),        *)
(*   - the streaming cleaner (JavaScript),                                 *)
(*   - the command extractor and the TOC line counter (Go).                *)
(* Text is a sequence of byte values (Go) or UTF-16 code units (JS); every *)
(* input the model enumerates is ASCII, where the two coincide.            *)
(***************************************************************************)
EXTENDS Integers, Sequences, FiniteSets, TLC

VARIABLES
    \* ---- batch functions (internal/session) ----
    content,                 \* the input handed to a batch function
    op,                      \* which batch function has been applied ("none" before)
    res,                     \* its result: [text, map1, map2]
    \* ---- streaming cleaner (internal/js/cleaner-core.js createStreamingCleaner) ----
    input,                   \* the whole stream the caller is going to write
    pos,                     \* number of characters of input already written
    headerBuffer, headerStripped,
    hasEmittedContent, pendingSeparator, pendingWhitespace,
    inAltScreen, altScreenHadContentBefore,
    escapeBuffer, trailingBuffer,
    out,                     \* concatenation of everything passed to onOutput
    calls,                   \* number of onOutput invocations
    ended,                   \* end() has been called
    \* ---- command extractor (timing.ExtractCommands) ----
    entries, inputContent,
    idx,                     \* index of the next timing entry of the range loop
    inputOffset, outputOffset, currentInput, commandOutputOffset,
    commands,
    cmdDone,                 \* ExtractCommands has returned
    \* ---- TOC (toc.FromCommands) ----
    tocCommands, rawOutput,
    sorted,                  \* the order sort.Slice produced (original indices)
    k,                       \* number of sorted commands already handled
    prevOffset, lineCount,
    tocEntries,
    tocDone,
    \* ---- TOC builder (playback.BuildTOC, with timing.Parse inside it) ----
    timingText,              \* the content behind timingReader
    buildInput, buildSession,   \* the arguments inputContent and sessionContent
    lineNum,                 \* Parse: lines scanned so far
    parsed,                  \* Parse: the entries appended so far
    parseErr,                \* Parse: 0, or the line number its error names
    buildState,              \* "parsing", "failed", "parsed", "returned", "panicked"
    buildResult,             \* what BuildTOC returned (<<>> for nil)
    \* ---- the metadata strippers applied to a session log, and again ----
    stripInput,              \* the content of the session log
    stripBody,               \* the part of it between header and footer lines
    stripOp,                 \* "none", "only", "only2", "full", "full2"
    stripOnce,               \* the result of the first application
    stripTwice,              \* the result of the application to that result
    \* ---- two streaming cleaners that share the global pattern objects ----
    pairInput,               \* the text each cleaner is fed
    pairPos,                 \* how much of it each has been written
    pairCleaner,             \* the closure variables of each cleaner
    pairAlone,               \* the same cleaner fed the same chunks with pattern objects of its own
    pairFresh,               \* the same cleaner fed the same chunks, every search starting at 0
    pairEnded,               \* whether end() has been called on each
    clearLastIndex,          \* clearPattern.lastIndex
    altLastIndex,            \* altScreenPattern.lastIndex
    leftBy,                  \* the cleaner whose call left altLastIndex non-zero, or 0
    crossStale               \* a call has met a lastIndex another cleaner left

batchVars == <<content, op, res>>
streamVars == <<input, pos, headerBuffer, headerStripped, hasEmittedContent,
                pendingSeparator, pendingWhitespace, inAltScreen,
                altScreenHadContentBefore, escapeBuffer, trailingBuffer, out,
                calls, ended>>
cmdVars == <<entries, inputContent, idx, inputOffset, outputOffset, currentInput,
             commandOutputOffset, commands, cmdDone>>
tocVars == <<tocCommands, rawOutput, sorted, k, prevOffset, lineCount, tocEntries,
             tocDone>>
buildVars == <<timingText, buildInput, buildSession, lineNum, parsed, parseErr,
               buildState, buildResult>>
stripVars == <<stripInput, stripBody, stripOp, stripOnce, stripTwice>>
pairVars == <<pairInput, pairPos, pairCleaner, pairAlone, pairFresh, pairEnded,
              clearLastIndex, altLastIndex, leftBy, crossStale>>
vars == <<batchVars, streamVars, cmdVars, tocVars, buildVars, stripVars, pairVars>>

-----------------------------------------------------------------------------
(* Text helpers.  Offsets are 0-based and half-open, as in Go and JS.      *)

Min(a, b) == IF a < b THEN a ELSE b
Max(a, b) == IF a > b THEN a ELSE b

\* s[a:b] (Go) / s.slice(a, b) (JS) for 0 <= a <= b <= len
Slice(s, a, b) == SubSeq(s, a + 1, b)

\* s[i] with a 0-based index, and a value that matches nothing past the end
At(s, i) == IF i >= 0 /\ i < Len(s) THEN s[i + 1] ELSE -1

\* does pattern p occur in s at 0-based offset i
OccursAt(s, i, p) ==
    /\ i >= 0
    /\ i + Len(p) <= Len(s)
    /\ \A j \in 1..Len(p) : s[i + j] = p[j]

HasPrefix(s, p) == OccursAt(s, 0, p)

\* unicode.IsSpace / the characters String.prototype.trim removes, on ASCII
IsSpace(c) == c \in {9, 10, 11, 12, 13, 32}

\* strings.TrimSpace(s) == "" , text.trim() === ''
IsBlank(s) == \A i \in 1..Len(s) : IsSpace(s[i])

\* the 0-based offsets of the ESC characters of s
EscOffsets(s) == {x \in 0..(Len(s) - 1) : s[x + 1] = 27}

RECURSIVE Concat(_)
Concat(ss) == IF ss = <<>> THEN <<>> ELSE Head(ss) \o Concat(Tail(ss))

\* the 0-based offsets of the line feeds of s, ascending
RECURSIVE SortedSeq(_)
SortedSeq(S) ==
    IF S = {} THEN <<>>
    ELSE LET m == CHOOSE x \in S : \A y \in S : x <= y
         IN <<m>> \o SortedSeq(S \ {m})

NewlineOffsets(s) == SortedSeq({i \in 0..(Len(s) - 1) : s[i + 1] = 10})

\* the pieces of s between the line feeds at the offsets nl
LinesBetween(s, nl) ==
    [i \in 1..(Len(nl) + 1) |->
        Slice(s, IF i = 1 THEN 0 ELSE nl[i - 1] + 1,
                 IF i = Len(nl) + 1 THEN Len(s) ELSE nl[i])]

\* strings.Split(s, "\n") / text.split('\n')
SplitLines(s) == LinesBetween(s, NewlineOffsets(s))

\* strings.Join(lines, "\n") / lines.join('\n')
RECURSIVE JoinLines(_)
JoinLines(lines) ==
    IF lines = <<>> THEN <<>>
    ELSE IF Len(lines) = 1 THEN lines[1]
    ELSE lines[1] \o <<10>> \o JoinLines(Tail(lines))

-----------------------------------------------------------------------------
(* Constants of the program.                                               *)

\* "\n\n──────── terminal cleared ────────\n\n"  as UTF-8 bytes (Go)
ClearSeparator ==
    <<10, 10, 226, 148, 128, 226, 148, 128, 226, 148, 128, 226, 148, 128,
      226, 148, 128, 226, 148, 128, 226, 148, 128, 226, 148, 128, 32, 116,
      101, 114, 109, 105, 110, 97, 108, 32, 99, 108, 101, 97, 114, 101, 100,
      32, 226, 148, 128, 226, 148, 128, 226, 148, 128, 226, 148, 128, 226,
      148, 128, 226, 148, 128, 226, 148, 128, 226, 148, 128, 10, 10>>

\* "\n\n──────── alternate screen ────────\n\n"  as UTF-8 bytes (Go)
AltScreenSeparator ==
    <<10, 10, 226, 148, 128, 226, 148, 128, 226, 148, 128, 226, 148, 128,
      226, 148, 128, 226, 148, 128, 226, 148, 128, 226, 148, 128, 32, 97,
      108, 116, 101, 114, 110, 97, 116, 101, 32, 115, 99, 114, 101, 101, 110,
      32, 226, 148, 128, 226, 148, 128, 226, 148, 128, 226, 148, 128, 226,
      148, 128, 226, 148, 128, 226, 148, 128, 226, 148, 128, 10, 10>>

\* the same two separators as UTF-16 code units (JS, '─' is 9472)
CLEAR_SEPARATOR ==
    <<10, 10, 9472, 9472, 9472, 9472, 9472, 9472, 9472, 9472, 32, 116, 101,
      114, 109, 105, 110, 97, 108, 32, 99, 108, 101, 97, 114, 101, 100, 32,
      9472, 9472, 9472, 9472, 9472, 9472, 9472, 9472, 10, 10>>

ALT_SCREEN_SEPARATOR ==
    <<10, 10, 9472, 9472, 9472, 9472, 9472, 9472, 9472, 9472, 32, 97, 108,
      116, 101, 114, 110, 97, 116, 101, 32, 115, 99, 114, 101, 101, 110, 32,
      9472, 9472, 9472, 9472, 9472, 9472, 9472, 9472, 10, 10>>

\* "Script started on", "Command:"
HeaderMarkers ==
    { <<83, 99, 114, 105, 112, 116, 32, 115, 116, 97, 114, 116, 101, 100, 32,
        111, 110>>,
      <<67, 111, 109, 109, 97, 110, 100, 58>> }

\* "Saving session", "Command exit status", "Script done on"
FooterMarkers ==
    { <<83, 97, 118, 105, 110, 103, 32, 115, 101, 115, 115, 105, 111, 110>>,
      <<67, 111, 109, 109, 97, 110, 100, 32, 101, 120, 105, 116, 32, 115, 116,
        97, 116, 117, 115>>,
      <<83, 99, 114, 105, 112, 116, 32, 100, 111, 110, 101, 32, 111, 110>> }

IsHeaderLine(line) == \E m \in HeaderMarkers : HasPrefix(line, m)
IsFooterLine(line) == \E m \in FooterMarkers : HasPrefix(line, m)

\* the number of leading lines inspected for header markers
HeaderScanLines == 5

-----------------------------------------------------------------------------
(* The two sequence detectors (regular expressions, leftmost-first).       *)

\* a detector that knows only the erase-entire-screen forms
\* \x1b\[H\x1b\[[23]J|\x1b\[[23]J\x1b\[H|\x1b\[[23]J
ClearLenAt_EraseOnly(s, i) ==
    IF ~OccursAt(s, i, <<27, 91>>) THEN 0
    ELSE IF At(s, i + 2) = 72 /\ OccursAt(s, i + 3, <<27, 91>>)
            /\ At(s, i + 5) \in {50, 51} /\ At(s, i + 6) = 74 THEN 7
    ELSE IF At(s, i + 2) \in {50, 51} /\ At(s, i + 3) = 74
         THEN IF OccursAt(s, i + 4, <<27, 91, 72>>) THEN 7 ELSE 4
    ELSE 0

\* \x1b\[(?:1;1)?H\x1b\[(?:0?J|[23]J)|\x1b\[[23]J\x1b\[H|\x1b\[[23]J
\* length of the match that starts at 0-based offset i, 0 when there is none
ClearLenAt(s, i) ==
    IF ~OccursAt(s, i, <<27, 91>>) THEN 0
    ELSE
      LET h == IF OccursAt(s, i + 2, <<49, 59, 49, 72>>) THEN i + 6
               ELSE IF At(s, i + 2) = 72 THEN i + 3
               ELSE -1
          \* first alternative: home, then ESC [ and J, 0J, 2J or 3J
          a1 == IF h >= 0 /\ OccursAt(s, h, <<27, 91>>)
                THEN IF At(s, h + 2) = 48 /\ At(s, h + 3) = 74 THEN h + 4 - i
                     ELSE IF At(s, h + 2) = 74 THEN h + 3 - i
                     ELSE IF At(s, h + 2) \in {50, 51} /\ At(s, h + 3) = 74
                          THEN h + 4 - i
                     ELSE 0
                ELSE 0
          erase == At(s, i + 2) \in {50, 51} /\ At(s, i + 3) = 74
      IN IF a1 > 0 THEN a1
         ELSE IF erase /\ OccursAt(s, i + 4, <<27, 91, 72>>) THEN 7
         ELSE IF erase THEN 4
         ELSE 0

\* a detector that lacks the 1047 code: \x1b\[\?(1049|47)[hl]
AltLenAt_No1047(s, i) ==
    IF ~OccursAt(s, i, <<27, 91, 63>>) THEN 0
    ELSE
      LET d == IF OccursAt(s, i + 3, <<49, 48, 52, 57>>) THEN i + 7
               ELSE IF OccursAt(s, i + 3, <<52, 55>>) THEN i + 5
               ELSE -1
      IN IF d >= 0 /\ At(s, d) \in {104, 108} THEN d + 1 - i ELSE 0

\* \x1b\[\?(1049|47|1047)[hl]
AltLenAt(s, i) ==
    IF ~OccursAt(s, i, <<27, 91, 63>>) THEN 0
    ELSE
      LET d == IF OccursAt(s, i + 3, <<49, 48, 52, 57>>) THEN i + 7
               ELSE IF OccursAt(s, i + 3, <<52, 55>>) THEN i + 5
               ELSE IF OccursAt(s, i + 3, <<49, 48, 52, 55>>) THEN i + 7
               ELSE -1
      IN IF d >= 0 /\ At(s, d) \in {104, 108} THEN d + 1 - i ELSE 0

\* FindAllStringIndex / repeated exec with the g flag from lastIndex 0:
\* the leftmost match, then the leftmost match after its end, and so on.
\* starts is the set of offsets where a match begins, len(i) its length.
RECURSIVE FindFrom(_, _, _, _)
FindFrom(s, from, starts, isClear) ==
    LET later == {i \in starts : i >= from}
    IN IF later = {} THEN <<>>
       ELSE LET i == CHOOSE x \in later : \A y \in later : x <= y
                n == IF isClear THEN ClearLenAt(s, i) ELSE AltLenAt(s, i)
            IN <<[start |-> i, end |-> i + n]>>
                 \o FindFrom(s, i + n, starts, isClear)

ClearMatches(s) ==
    FindFrom(s, 0, {i \in 0..(Len(s) - 1) : s[i + 1] = 27 /\ ClearLenAt(s, i) > 0}, TRUE)

AltMatches(s) ==
    FindFrom(s, 0, {i \in 0..(Len(s) - 1) : s[i + 1] = 27 /\ AltLenAt(s, i) > 0}, FALSE)

-----------------------------------------------------------------------------
(* Metadata stripper (internal/session/cleaner.go).                        *)

\* a header loop that stops at the first line that starts with a marker
HeaderStart_FirstMatch(lines) ==
    LET hs == {i \in 0..(Min(Len(lines), HeaderScanLines) - 1) : IsHeaderLine(lines[i + 1])}
    IN IF hs = {} THEN 0 ELSE (CHOOSE i \in hs : \A j \in hs : i <= j) + 1

\* the header loop: one past the last of the first five lines that starts
\* with a header marker, 0 when none does
HeaderStart(lines) ==
    LET hs == {i \in 0..(Min(Len(lines), HeaderScanLines) - 1) : IsHeaderLine(lines[i + 1])}
    IN IF hs = {} THEN 0 ELSE (CHOOSE i \in hs : \A j \in hs : j <= i) + 1

\* the footer loop, walking backwards from line i (0-based)
RECURSIVE FooterScan(_, _, _, _)
FooterScan(lines, i, footerStartIndex, hasFooterMarker) ==
    IF i < 0 THEN footerStartIndex
    ELSE IF IsFooterLine(lines[i + 1])
         THEN FooterScan(lines, i - 1, i, TRUE)
    ELSE IF hasFooterMarker /\ IsBlank(lines[i + 1])
         THEN FooterScan(lines, i - 1, i, hasFooterMarker)
    ELSE IF footerStartIndex < Len(lines)
         THEN footerStartIndex
    ELSE FooterScan(lines, i - 1, footerStartIndex, hasFooterMarker)

FooterStart(lines) == FooterScan(lines, Len(lines) - 1, Len(lines), FALSE)

\* the loop that drops trailing blank lines, never going below floor
RECURSIVE TrimBlankTail(_, _, _)
TrimBlankTail(lines, endIndex, floor) ==
    IF endIndex > floor /\ IsBlank(lines[endIndex])
    THEN TrimBlankTail(lines, endIndex - 1, floor)
    ELSE endIndex

\* a stripper that also drops the blank lines of the content it keeps
StripMetadataOnly_DropBlank(c) ==
    LET lines      == SplitLines(c)
        startIndex == HeaderStart(lines)
        endIndex   == TrimBlankTail(lines, FooterStart(lines), startIndex)
    IN IF startIndex >= Len(lines) \/ startIndex >= endIndex THEN <<>>
       ELSE JoinLines(SelectSeq(SubSeq(lines, startIndex + 1, endIndex),
                                LAMBDA l : ~IsBlank(l)))

StripMetadataOnly(c) ==
    LET lines      == SplitLines(c)
        startIndex == HeaderStart(lines)
        endIndex   == TrimBlankTail(lines, FooterStart(lines), startIndex)
    IN IF startIndex >= Len(lines) \/ startIndex >= endIndex THEN <<>>
       ELSE JoinLines(SubSeq(lines, startIndex + 1, endIndex))

-----------------------------------------------------------------------------
(* Batch neutralizers (package session, clear.go).                         *)

\* the loop over the clear matches: [result, lastEnd]
RECURSIVE ClearLoop(_, _, _, _)
ClearLoop(c, ms, lastEnd, result) ==
    IF ms = <<>> THEN [result |-> result, lastEnd |-> lastEnd]
    ELSE LET m      == Head(ms)
             before == Slice(c, lastEnd, m.start)
             sep    == IF ~IsBlank(Slice(c, m.end, Len(c)))
                       THEN ClearSeparator ELSE <<>>
             r2     == IF ~IsBlank(before) THEN result \o before \o sep
                       ELSE result
         IN ClearLoop(c, Tail(ms), m.end, r2)

NeutralizeClearSequences(c) ==
    LET matches == ClearMatches(c)
    IN IF matches = <<>> THEN c
       ELSE LET l         == ClearLoop(c, matches, 0, <<>>)
                remaining == Slice(c, l.lastEnd, Len(c))
            IN IF ~IsBlank(remaining) THEN l.result \o remaining ELSE l.result

\* the first clear match lying wholly in [lastEnd, start), or start itself
\* a StripFrom that takes the last clear before the enter, not the first
StripFrom_LastClear(clearMatches, lastEnd, start) ==
    LET ok == {j \in 1..Len(clearMatches) :
                  clearMatches[j].start >= lastEnd /\ clearMatches[j].end <= start}
    IN IF ok = {} THEN start
       ELSE clearMatches[CHOOSE j \in ok : \A j2 \in ok : j >= j2].start

StripFrom(clearMatches, lastEnd, start) ==
    LET ok == {j \in 1..Len(clearMatches) :
                  clearMatches[j].start >= lastEnd /\ clearMatches[j].end <= start}
    IN IF ok = {} THEN start
       ELSE clearMatches[CHOOSE j \in ok : \A j2 \in ok : j <= j2].start

\* the loop over the alternate-screen matches: [result, lastEnd, inAlt]
RECURSIVE AltLoop(_, _, _, _, _, _)
AltLoop(c, ms, clearMatches, lastEnd, result, inAlt) ==
    IF ms = <<>> THEN [result |-> result, lastEnd |-> lastEnd, inAlt |-> inAlt]
    ELSE LET m       == Head(ms)
             isEnter == At(c, m.end - 1) = 104
         IN IF isEnter /\ ~inAlt
            THEN AltLoop(c, Tail(ms), clearMatches, m.end,
                         result \o Slice(c, lastEnd, StripFrom(clearMatches, lastEnd, m.start)),
                         TRUE)
            ELSE IF ~isEnter /\ inAlt
            THEN AltLoop(c, Tail(ms), clearMatches, m.end,
                         IF ~IsBlank(result) /\ ~IsBlank(Slice(c, m.end, Len(c)))
                         THEN result \o AltScreenSeparator ELSE result,
                         FALSE)
            ELSE AltLoop(c, Tail(ms), clearMatches, m.end, result, inAlt)

NeutralizeAltScreenSequences(c) ==
    LET altMatches == AltMatches(c)
    IN IF altMatches = <<>> THEN c
       ELSE LET l == AltLoop(c, altMatches, ClearMatches(c), 0, <<>>, FALSE)
            IN IF ~l.inAlt THEN l.result \o Slice(c, l.lastEnd, Len(c))
               ELSE l.result

\* StripMetadata: the same header/footer slicing, then both neutralizers
StripMetadata(c) ==
    LET lines      == SplitLines(c)
        startIndex == HeaderStart(lines)
        endIndex   == TrimBlankTail(lines, FooterStart(lines), startIndex)
    IN IF startIndex >= Len(lines) \/ startIndex >= endIndex THEN <<>>
       ELSE NeutralizeClearSequences(
                NeutralizeAltScreenSequences(
                    JoinLines(SubSeq(lines, startIndex + 1, endIndex))))

-----------------------------------------------------------------------------
(* Offset mappers (internal/session/offset.go).                            *)

\* a Map that forgets to rebase the offset on the region's start
Map_NoRebase(m, srcOffset) ==
    IF m.regions = <<>> THEN 0
    ELSE LET hit == {j \in 1..Len(m.regions) : srcOffset < m.regions[j].srcEnd}
         IN IF hit = {} THEN m.dstLen
            ELSE LET r == m.regions[CHOOSE j \in hit : \A j2 \in hit : j <= j2]
                 IN IF srcOffset < r.srcStart THEN r.dstStart
                    ELSE r.dstStart + srcOffset

\* OffsetMapper.Map
Map(m, srcOffset) ==
    IF m.regions = <<>> THEN 0
    ELSE LET hit == {j \in 1..Len(m.regions) : srcOffset < m.regions[j].srcEnd}
         IN IF hit = {} THEN m.dstLen
            ELSE LET r == m.regions[CHOOSE j \in hit : \A j2 \in hit : j <= j2]
                 IN IF srcOffset < r.srcStart THEN r.dstStart
                    ELSE r.dstStart + (srcOffset - r.srcStart)

identityMapper(contentLen) ==
    [regions |-> <<[srcStart |-> 0, srcEnd |-> contentLen, dstStart |-> 0]>>,
     dstLen |-> contentLen]

\* a region that records the source offset as its destination
Region_SourceAsDestination(a, b, d) == [srcStart |-> a, srcEnd |-> b, dstStart |-> a]

Region(a, b, d) == [srcStart |-> a, srcEnd |-> b, dstStart |-> d]

RECURSIVE AltLoopOff(_, _, _, _, _, _, _)
AltLoopOff(c, ms, clearMatches, lastEnd, result, regions, inAlt) ==
    IF ms = <<>>
    THEN [result |-> result, regions |-> regions, lastEnd |-> lastEnd, inAlt |-> inAlt]
    ELSE LET m       == Head(ms)
             isEnter == At(c, m.end - 1) = 104
         IN IF isEnter /\ ~inAlt
            THEN LET stripFrom == StripFrom(clearMatches, lastEnd, m.start)
                     before    == Slice(c, lastEnd, stripFrom)
                 IN AltLoopOff(c, Tail(ms), clearMatches, m.end, result \o before,
                               IF Len(before) > 0
                               THEN Append(regions, Region(lastEnd, stripFrom, Len(result)))
                               ELSE regions,
                               TRUE)
            ELSE IF ~isEnter /\ inAlt
            THEN AltLoopOff(c, Tail(ms), clearMatches, m.end,
                            IF ~IsBlank(result) /\ ~IsBlank(Slice(c, m.end, Len(c)))
                            THEN result \o AltScreenSeparator ELSE result,
                            regions, FALSE)
            ELSE AltLoopOff(c, Tail(ms), clearMatches, m.end, result, regions, inAlt)

neutralizeAltScreenWithOffsets(c) ==
    LET altMatches == AltMatches(c)
    IN IF altMatches = <<>> THEN [text |-> c, mapper |-> identityMapper(Len(c))]
       ELSE LET l         == AltLoopOff(c, altMatches, ClearMatches(c), 0, <<>>, <<>>, FALSE)
                remaining == Slice(c, l.lastEnd, Len(c))
                regions   == IF ~l.inAlt /\ Len(remaining) > 0
                             THEN Append(l.regions,
                                         Region(l.lastEnd, l.lastEnd + Len(remaining),
                                                Len(l.result)))
                             ELSE l.regions
                text      == IF ~l.inAlt THEN l.result \o remaining ELSE l.result
            IN [text |-> text, mapper |-> [regions |-> regions, dstLen |-> Len(text)]]

RECURSIVE ClearLoopOff(_, _, _, _, _)
ClearLoopOff(c, ms, lastEnd, result, regions) ==
    IF ms = <<>> THEN [result |-> result, regions |-> regions, lastEnd |-> lastEnd]
    ELSE LET m      == Head(ms)
             before == Slice(c, lastEnd, m.start)
             sep    == IF ~IsBlank(Slice(c, m.end, Len(c)))
                       THEN ClearSeparator ELSE <<>>
         IN IF ~IsBlank(before)
            THEN ClearLoopOff(c, Tail(ms), m.end, result \o before \o sep,
                              Append(regions, Region(lastEnd, m.start, Len(result))))
            ELSE ClearLoopOff(c, Tail(ms), m.end, result, regions)

neutralizeClearWithOffsets(c) ==
    LET matches == ClearMatches(c)
    IN IF matches = <<>> THEN [text |-> c, mapper |-> identityMapper(Len(c))]
       ELSE LET l         == ClearLoopOff(c, matches, 0, <<>>, <<>>)
                remaining == Slice(c, l.lastEnd, Len(c))
                keep      == ~IsBlank(remaining)
                regions   == IF keep
                             THEN Append(l.regions,
                                         Region(l.lastEnd, l.lastEnd + Len(remaining),
                                                Len(l.result)))
                             ELSE l.regions
                text      == IF keep THEN l.result \o remaining ELSE l.result
            IN [text |-> text, mapper |-> [regions |-> regions, dstLen |-> Len(text)]]

\* what NeutralizeAllWithOffsets returns: the final text, and the text between
\* the passes with the two mappers that the returned closure composes
AllWithOffsets(s1, s2) ==
    [text |-> s2.text, inter |-> s1.text, map1 |-> s1.mapper, map2 |-> s2.mapper]

\* a pipeline that leaves the clear pass out
ClearsAfterAlt_NoClearPass(s1) ==
    AllWithOffsets(s1, [text |-> s1.text, mapper |-> identityMapper(Len(s1.text))])

\* the clear pass on the result of the alternate-screen pass
ClearsAfterAlt(s1) == AllWithOffsets(s1, neutralizeClearWithOffsets(s1.text))

NeutralizeAllWithOffsets(c) == ClearsAfterAlt(neutralizeAltScreenWithOffsets(c))

\* mapFn of NeutralizeAllWithOffsets
MapFn(r, rawOffset) == Map(r.map2, Map(r.map1, rawOffset))

-----------------------------------------------------------------------------
(* Streaming cleaner (internal/js/cleaner-core.js).                        *)

HEADER_LINES_THRESHOLD == 5
TRAILING_SIZE == 500
\* "escape sequences are typically <10 bytes"
EscapeWindow == 10

\* lines.slice(startIndex).join('\n'), the text itself when nothing is cut
DropHeaderLines(text, lines) ==
    IF HeaderStart(lines) = 0 THEN text
    ELSE JoinLines(SubSeq(lines, HeaderStart(lines) + 1, Len(lines)))

\* stripHeader
stripHeader(text) == DropHeaderLines(text, SplitLines(text))

\* lines.slice(0, endIndex).join('\n'), the text itself when nothing is cut
KeepLines(text, lines, endIndex) ==
    IF endIndex >= Len(lines) THEN text
    ELSE JoinLines(SubSeq(lines, 1, endIndex))

DropFooterLines(text, lines) ==
    KeepLines(text, lines, TrimBlankTail(lines, FooterStart(lines), 0))

\* stripFooter
stripFooter(text) == DropFooterLines(text, SplitLines(text))

\* the state processForClears reads and writes
ClearState(he, ps, pw) ==
    [hasEmittedContent |-> he, pendingSeparator |-> ps, pendingWhitespace |-> pw]

\* one span of text that holds non-whitespace: the owed separator and the
\* buffered whitespace go out before it
EmitReal(st, result, span) ==
    [st     |-> ClearState(TRUE, FALSE, IF st.pendingSeparator THEN <<>>
                                        ELSE st.pendingWhitespace),
     result |-> IF st.pendingSeparator
                THEN result \o CLEAR_SEPARATOR \o st.pendingWhitespace \o span
                ELSE result \o span]

\* one span next to a clear: real content goes out, whitespace is held back
\* while a separator is owed and dropped otherwise
EmitSpan(st, result, span) ==
    IF ~IsBlank(span) THEN EmitReal(st, result, span)
    ELSE IF st.pendingSeparator
    THEN [st |-> [st EXCEPT !.pendingWhitespace = @ \o span], result |-> result]
    ELSE [st |-> st, result |-> result]

\* a clear was seen: a separator is owed whether or not content was emitted
OweSeparator_Always(st) ==
    [st EXCEPT !.pendingSeparator = TRUE, !.pendingWhitespace = <<>>]

\* a clear was seen: a separator is owed once content has been emitted
OweSeparator(st) ==
    IF st.hasEmittedContent
    THEN [st EXCEPT !.pendingSeparator = TRUE, !.pendingWhitespace = <<>>]
    ELSE st

\* the for loop of processForClears over the matches
RECURSIVE ClearsLoop(_, _, _, _, _)
RECURSIVE ClearsLoopNext(_, _, _)
ClearsLoop(text, ms, lastEnd, st, result) ==
    IF ms = <<>> THEN [st |-> st, result |-> result, lastEnd |-> lastEnd]
    ELSE ClearsLoopNext(text, ms,
                        EmitSpan(st, result, Slice(text, lastEnd, Head(ms).start)))

\* the rest of one iteration, a being the state and result after the span
ClearsLoopNext(text, ms, a) ==
    ClearsLoop(text, Tail(ms), Head(ms).end, OweSeparator(a.st), a.result)

\* the code after the loop, l being the state the loop ended in
ClearsRemaining(text, l) ==
    EmitSpan(l.st, l.result, Slice(text, l.lastEnd, Len(text)))

\* processForClears on a text with the given matches
ClearsOf(text, st, matches) ==
    IF matches = <<>>
    THEN IF IsBlank(text) /\ ~st.pendingSeparator
         THEN [st |-> st, result |-> text]
         ELSE EmitSpan(st, <<>>, text)
    ELSE ClearsRemaining(text, ClearsLoop(text, matches, 0, st, <<>>))

\* processForClears(text) run in state st: [st, result]
processForClears(text, st) ==
    IF text = <<>> THEN [st |-> st, result |-> <<>>]
    ELSE ClearsOf(text, st, ClearMatches(text))

\* the first of the matches ms that ends in final (h or l)
FirstEnding(text, final, ms) ==
    LET ok == {j \in 1..Len(ms) : At(text, ms[j].end - 1) = final}
    IN IF ok = {} THEN <<>>
       ELSE <<ms[CHOOSE j \in ok : \A j2 \in ok : j <= j2]>>

\* the first alternate-screen match of text that ends in final
FirstAlt(text, final) == FirstEnding(text, final, AltMatches(text))

\* altScreenHadContentBefore is read after the recursive call has returned
AfterLeave(r) ==
    IF r.hadBefore /\ ~IsBlank(r.result)
    THEN [r EXCEPT !.result = ALT_SCREEN_SEPARATOR \o @]
    ELSE r

\* return before + processed
AfterEnter(before, r) == [r EXCEPT !.result = before \o @]

\* processForAltScreen(text) run with the given flags: [inAlt, hadBefore, result]
RECURSIVE processForAltScreen(_, _, _)
RECURSIVE InsideAltScreen(_, _, _)
RECURSIVE OutsideAltScreen(_, _, _)
processForAltScreen(text, inAlt, hadBefore) ==
    IF text = <<>> THEN [inAlt |-> inAlt, hadBefore |-> hadBefore, result |-> <<>>]
    ELSE IF inAlt THEN InsideAltScreen(text, hadBefore, FirstAlt(text, 108))
    ELSE OutsideAltScreen(text, hadBefore, FirstAlt(text, 104))

\* the branch taken inside the alternate screen, leave being the first leave
InsideAltScreen(text, hadBefore, leave) ==
    IF leave = <<>>
    THEN [inAlt |-> TRUE, hadBefore |-> hadBefore, result |-> <<>>]
    ELSE AfterLeave(processForAltScreen(Slice(text, leave[1].end, Len(text)),
                                        FALSE, hadBefore))

\* the branch taken on the main screen, enter being the first enter
OutsideAltScreen(text, hadBefore, enter) ==
    IF enter = <<>>
    THEN [inAlt |-> FALSE, hadBefore |-> hadBefore \/ ~IsBlank(text), result |-> text]
    ELSE AfterEnter(Slice(text, 0, enter[1].start),
                    processForAltScreen(Slice(text, enter[1].end, Len(text)), TRUE,
                                        hadBefore \/ ~IsBlank(Slice(text, 0, enter[1].start))))

\* text.lastIndexOf('\x1b'), -1 when there is none
LastEsc(text) ==
    LET es == EscOffsets(text)
    IN IF es = {} THEN -1 ELSE CHOOSE x \in es : \A y \in es : y <= x

\* the cleaner's closure variables, with the output passed to onOutput
NewCleaner ==
    [headerBuffer |-> <<>>, headerStripped |-> FALSE,
     hasEmittedContent |-> FALSE, pendingSeparator |-> FALSE,
     pendingWhitespace |-> <<>>,
     inAltScreen |-> FALSE, altScreenHadContentBefore |-> FALSE,
     escapeBuffer |-> <<>>, trailingBuffer |-> <<>>,
     out |-> <<>>, calls |-> 0]

\* if (processed) onOutput(processed), with the state the two passes left
Output(c, st, al) ==
    [c EXCEPT !.hasEmittedContent = st.hasEmittedContent,
              !.pendingSeparator = st.pendingSeparator,
              !.pendingWhitespace = st.pendingWhitespace,
              !.inAltScreen = al.inAlt,
              !.altScreenHadContentBefore = al.hadBefore,
              !.out = @ \o al.result,
              !.calls = IF al.result # <<>> THEN @ + 1 ELSE @]

\* processed = processForAltScreen(processed), cl being the clear pass's result
EmitAlt(c, cl) ==
    Output(c, cl.st,
           processForAltScreen(cl.result, c.inAltScreen, c.altScreenHadContentBefore))

\* processed = processForClears(text); processed = processForAltScreen(processed);
\* if (processed) onOutput(processed)
Emit(c, text) ==
    EmitAlt(c, processForClears(text, ClearState(c.hasEmittedContent,
                                                 c.pendingSeparator,
                                                 c.pendingWhitespace)))

\* where write cuts escapeBuffer + chunk: at the last ESC when it lies in the
\* last characters of the text, at the end otherwise
EscapeCut(text, lastEsc) ==
    IF lastEsc >= 0 /\ lastEsc > Len(text) - EscapeWindow THEN lastEsc ELSE Len(text)

\* a header stage that releases the buffered head as it is
HeaderBuffered_NoStrip(c, hb) ==
    IF Len(NewlineOffsets(hb)) >= HEADER_LINES_THRESHOLD
    THEN [c    |-> [c EXCEPT !.headerBuffer = <<>>, !.headerStripped = TRUE],
          go   |-> TRUE,
          text |-> hb]
    ELSE [c |-> [c EXCEPT !.headerBuffer = hb], go |-> FALSE, text |-> <<>>]

\* the header stage on the buffered header hb: [c, go, text]
HeaderBuffered(c, hb) ==
    IF Len(NewlineOffsets(hb)) >= HEADER_LINES_THRESHOLD
    THEN [c    |-> [c EXCEPT !.headerBuffer = <<>>, !.headerStripped = TRUE],
          go   |-> TRUE,
          text |-> stripHeader(hb)]
    ELSE [c |-> [c EXCEPT !.headerBuffer = hb], go |-> FALSE, text |-> <<>>]

\* the header stage of write; go is FALSE when write returns early
HeaderStage(c, text) ==
    IF c.headerStripped THEN [c |-> c, go |-> TRUE, text |-> text]
    ELSE HeaderBuffered(c, c.headerBuffer \o text)

\* the trailing window of write, on text = trailingBuffer + text
TrailingStage(c, text) ==
    IF Len(text) > TRAILING_SIZE
    THEN Emit([c EXCEPT !.trailingBuffer =
                           Slice(text, Len(text) - TRAILING_SIZE, Len(text))],
              Slice(text, 0, Len(text) - TRAILING_SIZE))
    ELSE [c EXCEPT !.trailingBuffer = text]

\* write after the header stage
AfterHeader(h) ==
    IF h.go THEN TrailingStage(h.c, h.c.trailingBuffer \o h.text) ELSE h.c

\* write after the escape carry: text is cut at offset cut
AfterCarry(c, text, cut) ==
    AfterHeader(HeaderStage([c EXCEPT !.escapeBuffer = Slice(text, cut, Len(text))],
                            Slice(text, 0, cut)))

\* write(chunk)
write(c, chunk) ==
    AfterCarry(c, c.escapeBuffer \o chunk,
               EscapeCut(c.escapeBuffer \o chunk, LastEsc(c.escapeBuffer \o chunk)))

\* end() without the call of stripFooter
end_NoFooterStrip(c) ==
    Emit(c, IF c.headerStripped THEN c.trailingBuffer \o c.escapeBuffer
            ELSE stripHeader(c.headerBuffer \o c.trailingBuffer \o c.escapeBuffer))

\* end()
end(c) ==
    Emit(c, stripFooter(IF c.headerStripped THEN c.trailingBuffer \o c.escapeBuffer
                        ELSE stripHeader(c.headerBuffer \o c.trailingBuffer
                                           \o c.escapeBuffer)))

-----------------------------------------------------------------------------
(* The same cleaner with the two pattern objects made explicit.            *)
(* clearPattern and altScreenPattern are module-level regular expressions  *)
(* with the g flag: exec starts at the object's lastIndex, leaves it at    *)
(* the end of the match it returns and sets it to 0 when it returns null.  *)
(* g is [clear, alt, ran]: the lastIndex of each object, and whether the   *)
(* call so far has run the alternate-screen detector.                      *)

\* pattern.lastIndex = i, without the assignment
ResetIndex_Keep(i) == i

\* pattern.lastIndex = 0
ResetIndex(i) == 0

\* the matches a loop of pattern.exec(text) returns from lastIndex = from
\* until it returns null
ExecAll(text, from, isClear) ==
    FindFrom(text, from,
             {i \in 0..(Len(text) - 1) :
                 /\ text[i + 1] = 27
                 /\ (IF isClear THEN ClearLenAt(text, i) ELSE AltLenAt(text, i)) > 0},
             isClear)

\* the result of a pass together with the pattern objects it left
WithPatterns(r, g) == [st |-> r.st, result |-> r.result, g |-> g]

\* processForClears(text): the loop runs until exec returns null
processForClearsOn(text, st, g) ==
    IF text = <<>> THEN [st |-> st, result |-> <<>>, g |-> g]
    ELSE WithPatterns(ClearsOf(text, st, ExecAll(text, ResetIndex(g.clear), TRUE)),
                      [g EXCEPT !.clear = 0])

\* processForAltScreen(text): [inAlt, hadBefore, result, g]
RECURSIVE processForAltScreenOn(_, _, _, _)
RECURSIVE InsideAltScreenOn(_, _, _, _)
RECURSIVE OutsideAltScreenOn(_, _, _, _)
processForAltScreenOn(text, inAlt, hadBefore, g) ==
    IF text = <<>>
    THEN [inAlt |-> inAlt, hadBefore |-> hadBefore, result |-> <<>>, g |-> g]
    ELSE IF inAlt
    THEN InsideAltScreenOn(text, hadBefore,
                           FirstEnding(text, 108, ExecAll(text, ResetIndex(g.alt), FALSE)),
                           [g EXCEPT !.alt = 0, !.ran = TRUE])
    ELSE OutsideAltScreenOn(text, hadBefore,
                            FirstEnding(text, 104, ExecAll(text, ResetIndex(g.alt), FALSE)),
                            [g EXCEPT !.ran = TRUE])

\* inside the alternate screen the loop runs until exec returns null
InsideAltScreenOn(text, hadBefore, leave, g) ==
    IF leave = <<>>
    THEN [inAlt |-> TRUE, hadBefore |-> hadBefore, result |-> <<>>, g |-> g]
    ELSE AfterLeave(processForAltScreenOn(Slice(text, leave[1].end, Len(text)),
                                          FALSE, hadBefore, g))

\* on the main screen the loop breaks at the first enter, which leaves
\* lastIndex at the end of that match
OutsideAltScreenOn(text, hadBefore, enter, g) ==
    IF enter = <<>>
    THEN [inAlt |-> FALSE, hadBefore |-> hadBefore \/ ~IsBlank(text), result |-> text,
          g |-> [g EXCEPT !.alt = 0]]
    ELSE AfterEnter(Slice(text, 0, enter[1].start),
                    processForAltScreenOn(Slice(text, enter[1].end, Len(text)), TRUE,
                                          hadBefore
                                            \/ ~IsBlank(Slice(text, 0, enter[1].start)),
                                          [g EXCEPT !.alt = enter[1].end]))

\* if (processed) onOutput(processed): [c, g]
OutputOn(c, st, al) == [c |-> Output(c, st, al), g |-> al.g]

EmitAltOn(c, cl) ==
    OutputOn(c, cl.st,
             processForAltScreenOn(cl.result, c.inAltScreen, c.altScreenHadContentBefore,
                                   cl.g))

EmitOn(c, text, g) ==
    EmitAltOn(c, processForClearsOn(text, ClearState(c.hasEmittedContent,
                                                     c.pendingSeparator,
                                                     c.pendingWhitespace), g))

TrailingStageOn(c, text, g) ==
    IF Len(text) > TRAILING_SIZE
    THEN EmitOn([c EXCEPT !.trailingBuffer =
                             Slice(text, Len(text) - TRAILING_SIZE, Len(text))],
                Slice(text, 0, Len(text) - TRAILING_SIZE), g)
    ELSE [c |-> [c EXCEPT !.trailingBuffer = text], g |-> g]

AfterHeaderOn(h, g) ==
    IF h.go THEN TrailingStageOn(h.c, h.c.trailingBuffer \o h.text, g)
    ELSE [c |-> h.c, g |-> g]

AfterCarryOn(c, text, cut, g) ==
    AfterHeaderOn(HeaderStage([c EXCEPT !.escapeBuffer = Slice(text, cut, Len(text))],
                              Slice(text, 0, cut)), g)

\* write(chunk) with the pattern objects as it finds them: [c, g]
writeOn(c, chunk, g) ==
    AfterCarryOn(c, c.escapeBuffer \o chunk,
                 EscapeCut(c.escapeBuffer \o chunk, LastEsc(c.escapeBuffer \o chunk)), g)

\* end() with the pattern objects as it finds them: [c, g]
endOn(c, g) ==
    EmitOn(c, stripFooter(IF c.headerStripped THEN c.trailingBuffer \o c.escapeBuffer
                          ELSE stripHeader(c.headerBuffer \o c.trailingBuffer
                                             \o c.escapeBuffer)), g)

-----------------------------------------------------------------------------
(* Command extractor (package timing).                                     *)

IsTerminator(b) == b = 13 \/ b = 10

\* strings.TrimRight(s, "\r\n")
RECURSIVE TrimRightCRLF(_)
TrimRightCRLF(s) ==
    IF s # <<>> /\ IsTerminator(s[Len(s)]) THEN TrimRightCRLF(SubSeq(s, 1, Len(s) - 1))
    ELSE s

\* the inner loop over parameter and intermediate bytes 0x20..0x3f
RECURSIVE SkipParams(_, _)
SkipParams(s, i) ==
    IF i < Len(s) /\ At(s, i) >= 32 /\ At(s, i) <= 63 THEN SkipParams(s, i + 1) ELSE i

\* a skip that stops in front of the final byte
SkipEscape_KeepFinal(s, i) ==
    IF At(s, i + 1) = 91 THEN SkipParams(s, i + 2) ELSE i + 1

\* the index after the escape sequence whose ESC is at i
SkipEscape(s, i) ==
    IF At(s, i + 1) = 91
    THEN LET j == SkipParams(s, i + 2)
         IN IF j < Len(s) THEN j + 1 ELSE j
    ELSE i + 1

\* stripEscapeSequences, from index i on
RECURSIVE StripFromIndex(_, _)
StripFromIndex(s, i) ==
    IF i >= Len(s) THEN <<>>
    ELSE IF At(s, i) = 27 THEN StripFromIndex(s, SkipEscape(s, i))
    ELSE IF At(s, i) < 32 THEN StripFromIndex(s, i + 1)
    ELSE <<At(s, i)>> \o StripFromIndex(s, i + 1)

stripEscapeSequences(s) == StripFromIndex(s, 0)

\* isOnlyEscapeSequences, from index i on
RECURSIVE OnlyEscapesFrom(_, _)
OnlyEscapesFrom(s, i) ==
    IF i >= Len(s) THEN TRUE
    ELSE IF At(s, i) = 27 THEN OnlyEscapesFrom(s, SkipEscape(s, i))
    ELSE IF At(s, i) < 32 THEN OnlyEscapesFrom(s, i + 1)
    ELSE FALSE

isOnlyEscapeSequences(s) == OnlyEscapesFrom(s, 0)

\* finalizeCommand without its check of the last byte
finalizeCommand_NoTerminatorCheck(inp, off) ==
    IF inp = <<>> THEN <<>>
    ELSE LET text == TrimRightCRLF(inp)
         IN IF text = <<>> THEN <<>>
            ELSE IF Len(text) = 1 /\ text[1] < 32 THEN <<>>
            ELSE IF isOnlyEscapeSequences(text) THEN <<>>
            ELSE IF text = <<9>> THEN <<>>
            ELSE IF stripEscapeSequences(text) = <<>> THEN <<>>
            ELSE <<[Text |-> stripEscapeSequences(text), OutputByteOffset |-> off]>>

\* finalizeCommand: <<>> for nil, else the one command
finalizeCommand(inp, off) ==
    IF inp = <<>> THEN <<>>
    ELSE IF ~IsTerminator(inp[Len(inp)]) THEN <<>>
    ELSE LET text == TrimRightCRLF(inp)
         IN IF text = <<>> THEN <<>>
            ELSE IF Len(text) = 1 /\ text[1] < 32 THEN <<>>
            ELSE IF isOnlyEscapeSequences(text) THEN <<>>
            ELSE IF text = <<9>> THEN <<>>
            ELSE IF stripEscapeSequences(text) = <<>> THEN <<>>
            ELSE <<[Text |-> stripEscapeSequences(text), OutputByteOffset |-> off]>>

\* the locals of ExtractCommands
NewExtractor ==
    [inputOffset |-> 0, outputOffset |-> 0, currentInput |-> <<>>,
     commandOutputOffset |-> 0, commands |-> <<>>]

\* the loop over the bytes of one Input chunk: [currentInput, commands]
RECURSIVE FeedBytes(_, _, _, _)
FeedBytes(chunk, cur, cmds, off) ==
    IF chunk = <<>> THEN [currentInput |-> cur, commands |-> cmds]
    ELSE LET cur2 == Append(cur, Head(chunk))
         IN IF IsTerminator(Head(chunk))
            THEN FeedBytes(Tail(chunk), <<>>, cmds \o finalizeCommand(cur2, off), off)
            ELSE FeedBytes(Tail(chunk), cur2, cmds, off)

\* the offset the command being typed will carry: taken when an Input entry
\* starts with an empty buffer
CandidateOffset(x) ==
    IF Len(x.currentInput) = 0 THEN x.outputOffset ELSE x.commandOutputOffset

\* an iteration that drops the keystrokes typed so far on an entry that is
\* neither Output nor Input
ExtractStep_OtherResets(x, e, inp) ==
    IF e.Type = "O" THEN [x EXCEPT !.outputOffset = @ + e.ByteCount]
    ELSE IF e.Type = "I"
    THEN LET off   == CandidateOffset(x)
             endo  == Min(x.inputOffset + e.ByteCount, Len(inp))
             fed   == IF x.inputOffset < Len(inp)
                      THEN FeedBytes(Slice(inp, x.inputOffset, endo),
                                     x.currentInput, x.commands, off)
                      ELSE [currentInput |-> x.currentInput, commands |-> x.commands]
         IN [x EXCEPT !.commandOutputOffset = off,
                      !.currentInput = fed.currentInput,
                      !.commands = fed.commands,
                      !.inputOffset = endo]
    ELSE [x EXCEPT !.currentInput = <<>>]

\* one iteration of the range loop, on entry e
ExtractStep(x, e, inp) ==
    IF e.Type = "O" THEN [x EXCEPT !.outputOffset = @ + e.ByteCount]
    ELSE IF e.Type = "I"
    THEN LET off   == CandidateOffset(x)
             endo  == Min(x.inputOffset + e.ByteCount, Len(inp))
             fed   == IF x.inputOffset < Len(inp)
                      THEN FeedBytes(Slice(inp, x.inputOffset, endo),
                                     x.currentInput, x.commands, off)
                      ELSE [currentInput |-> x.currentInput, commands |-> x.commands]
         IN [x EXCEPT !.commandOutputOffset = off,
                      !.currentInput = fed.currentInput,
                      !.commands = fed.commands,
                      !.inputOffset = endo]
    ELSE x

\* the handling of trailing input after the loop
ExtractFinish(x) ==
    IF Len(x.currentInput) > 0
    THEN [x EXCEPT !.commands =
                      @ \o finalizeCommand(x.currentInput, x.commandOutputOffset)]
    ELSE x

\* ExtractCommands as a function of its arguments
RECURSIVE ExtractLoop(_, _, _)
ExtractLoop(x, es, inp) ==
    IF es = <<>> THEN ExtractFinish(x)
    ELSE ExtractLoop(ExtractStep(x, Head(es), inp), Tail(es), inp)

ExtractCommands(es, inp) == ExtractLoop(NewExtractor, es, inp).commands

\* whether the walk of ExtractCommands from cursor off on takes a slice
\* inputContent[off:end] with off < 0 or end < off, on which the Go runtime
\* panics (slice bounds out of range)
RECURSIVE SliceFaultFrom(_, _, _)
SliceFaultAt(es, off, inp, endo) ==
    IF off < Len(inp) /\ (off < 0 \/ endo < off) THEN TRUE
    ELSE SliceFaultFrom(Tail(es), endo, inp)

SliceFaultFrom(es, off, inp) ==
    IF es = <<>> THEN FALSE
    ELSE IF Head(es).Type = "I"
    THEN SliceFaultAt(es, off, inp, Min(off + Head(es).ByteCount, Len(inp)))
    ELSE SliceFaultFrom(Tail(es), off, inp)

SliceFault(es, inp) == SliceFaultFrom(es, NewExtractor.inputOffset, inp)

-----------------------------------------------------------------------------
(* Timing parser (package timing, Parse and parseLine).                    *)

\* the lines bufio.Scanner yields: split at line feeds, one trailing carriage
\* return dropped from each line, no empty line after the last line feed
DropCR(line) ==
    IF line # <<>> /\ line[Len(line)] = 13 THEN SubSeq(line, 1, Len(line) - 1)
    ELSE line

ScannedOf(lines) ==
    [i \in 1..(IF lines[Len(lines)] = <<>> THEN Len(lines) - 1 ELSE Len(lines)) |->
        DropCR(lines[i])]

ScanLines(text) == ScannedOf(SplitLines(text))

\* strings.TrimSpace
RECURSIVE TrimLeft(_)
TrimLeft(s) == IF s # <<>> /\ IsSpace(s[1]) THEN TrimLeft(Tail(s)) ELSE s

RECURSIVE TrimRight(_)
TrimRight(s) ==
    IF s # <<>> /\ IsSpace(s[Len(s)]) THEN TrimRight(SubSeq(s, 1, Len(s) - 1)) ELSE s

TrimSpace(s) == TrimRight(TrimLeft(s))

\* the length of the run of non-space bytes at the head of s
RECURSIVE WordLen(_)
WordLen(s) == IF s = <<>> \/ IsSpace(s[1]) THEN 0 ELSE 1 + WordLen(Tail(s))

\* strings.Fields
RECURSIVE Fields(_)
Fields(s) ==
    IF s = <<>> THEN <<>>
    ELSE IF IsSpace(s[1]) THEN Fields(Tail(s))
    ELSE <<SubSeq(s, 1, WordLen(s))>> \o Fields(SubSeq(s, WordLen(s) + 1, Len(s)))

isDigit(b) == b >= 48 /\ b <= 57

AllDigits(s) == s # <<>> /\ \A i \in 1..Len(s) : isDigit(s[i])

\* the number written by a run of digits
RECURSIVE DigitsValue(_)
DigitsValue(s) ==
    IF s = <<>> THEN 0
    ELSE 10 * DigitsValue(SubSeq(s, 1, Len(s) - 1)) + (s[Len(s)] - 48)

HasSign(s) == s # <<>> /\ s[1] \in {43, 45}
Unsigned(s) == IF HasSign(s) THEN Tail(s) ELSE s

\* strconv.Atoi: an optional sign and decimal digits
AtoiOk(s) == AllDigits(Unsigned(s))
Atoi(s) ==
    IF HasSign(s) /\ s[1] = 45 THEN 0 - DigitsValue(Unsigned(s))
    ELSE DigitsValue(Unsigned(s))

\* the offset of the first "." of s, Len(s) when there is none
RECURSIVE DotAt(_)
DotAt(s) == IF s = <<>> \/ s[1] = 46 THEN 0 ELSE 1 + DotAt(Tail(s))

\* strconv.ParseFloat on decimal notation: an optional sign, digits, and at
\* most one "." with digits on at least one side
FloatOk(s) ==
    /\ AllDigits(SubSeq(Unsigned(s), 1, DotAt(Unsigned(s)))
                   \o SubSeq(Unsigned(s), DotAt(Unsigned(s)) + 2, Len(Unsigned(s))))

\* the fraction digits of a parsed delay, padded or cut to microseconds
Micros(frac) == SubSeq(frac \o <<48, 48, 48, 48, 48, 48>>, 1, 6)

\* the parsed delay in microseconds (the delays of script(1) carry six decimals)
ParseFloat(s) ==
    (IF HasSign(s) /\ s[1] = 45 THEN -1 ELSE 1)
      * (1000000 * DigitsValue(SubSeq(Unsigned(s), 1, DotAt(Unsigned(s))))
         + DigitsValue(Micros(SubSeq(Unsigned(s), DotAt(Unsigned(s)) + 2,
                                     Len(Unsigned(s))))))

\* a conversion that reads every tag as Output
EntryTypeOf_AlwaysOutput(b) == "O"

\* EntryType(fields[0][0]); a tag other than O, I, H, S is kept as "?"
EntryTypeOf(b) ==
    IF b = 79 THEN "O" ELSE IF b = 73 THEN "I" ELSE IF b = 72 THEN "H"
    ELSE IF b = 83 THEN "S" ELSE "?"

TimingEntry(t, d, n) == [Type |-> t, Delay |-> d, ByteCount |-> n]

\* the two numeric fields of an Input/Output or classic line: [ok, entry]
NumericLine(typ, delay, count) ==
    IF ~FloatOk(delay) THEN [ok |-> FALSE, entry |-> TimingEntry("", 0, 0)]
    ELSE IF ~AtoiOk(count) THEN [ok |-> FALSE, entry |-> TimingEntry("", 0, 0)]
    ELSE [ok |-> TRUE, entry |-> TimingEntry(typ, ParseFloat(delay), Atoi(count))]

\* parseLine on the fields of the line: [ok, entry]
ParseFields(fields) ==
    IF Len(fields) < 2 THEN [ok |-> FALSE, entry |-> TimingEntry("", 0, 0)]
    ELSE IF Len(fields[1]) = 1 /\ ~isDigit(fields[1][1])
    THEN IF EntryTypeOf(fields[1][1]) \in {"H", "S"}
         THEN [ok |-> TRUE,
               entry |-> TimingEntry(EntryTypeOf(fields[1][1]),
                                     IF FloatOk(fields[2]) THEN ParseFloat(fields[2])
                                     ELSE 0,
                                     0)]
         ELSE IF Len(fields) < 3
         THEN [ok |-> FALSE, entry |-> TimingEntry("", 0, 0)]
         ELSE NumericLine(EntryTypeOf(fields[1][1]), fields[2], fields[3])
    ELSE NumericLine("O", fields[1], fields[2])

parseLine(line) == ParseFields(Fields(line))

\* one iteration of the loop of Parse on non-blank line number n, whose
\* parseLine result is r, that returns entries where it should return nil
ParseIteration_KeepPartial(acc, n, r) ==
    IF ~r.ok THEN [err |-> TRUE, line |-> n, entries |-> acc]
    ELSE [err |-> FALSE, line |-> 0, entries |-> Append(acc, r.entry)]

\* one iteration of the loop of Parse on non-blank line number n, whose
\* parseLine result is r: [err, line, entries], err with the 1-based number
\* the error names and no entries
ParseIteration(acc, n, r) ==
    IF ~r.ok THEN [err |-> TRUE, line |-> n, entries |-> <<>>]
    ELSE [err |-> FALSE, line |-> 0, entries |-> Append(acc, r.entry)]

\* the loop of Parse from line i on
RECURSIVE ParseFrom(_, _, _)
RECURSIVE ParseNext(_, _, _)
ParseFrom(lines, i, acc) ==
    IF i > Len(lines) THEN [err |-> FALSE, line |-> 0, entries |-> acc]
    ELSE IF TrimSpace(lines[i]) = <<>> THEN ParseFrom(lines, i + 1, acc)
    ELSE ParseNext(lines, i, ParseIteration(acc, i, parseLine(TrimSpace(lines[i]))))

ParseNext(lines, i, st) ==
    IF st.err THEN st ELSE ParseFrom(lines, i + 1, st.entries)

\* Parse as a function of the file's content
Parse(text) == ParseFrom(ScanLines(text), 1, <<>>)

-----------------------------------------------------------------------------
(* TOC line counter (package toc).                                         *)

\* a comparator that sorts by descending offset
less_Descending(a, b) == a.OutputByteOffset > b.OutputByteOffset

\* the less function handed to sort.Slice
less(a, b) == a.OutputByteOffset < b.OutputByteOffset

\* the orders sort.Slice may leave the commands in (it is not stable)
IsPerm(p, n) == \A i \in 1..n : \E j \in 1..n : p[j] = i
SortResults(cmds) ==
    {p \in [1..Len(cmds) -> 1..Len(cmds)] :
        /\ IsPerm(p, Len(cmds))
        /\ \A i \in 1..(Len(cmds) - 1) : ~less(cmds[p[i + 1]], cmds[p[i]])}

\* the line feeds of raw[a:b]
LineFeeds(raw, a, b) == Cardinality({i \in a..(b - 1) : raw[i + 1] = 10})

\* the counting loop of FromCommands from position j of the sorted order on,
\* prev and lc being prevOffset and lineCount
RECURSIVE CountFrom(_, _, _, _, _, _, _)
\* a counting step that records the line feeds after the offset, not before
CountStep_LinesAfter(cmds, raw, order, j, prev, lc, acc, offset) ==
    CountFrom(cmds, raw, order, j + 1, offset, lc + LineFeeds(raw, prev, offset),
              [acc EXCEPT ![order[j]] =
                  [Label |-> cmds[order[j]].Text,
                   Line |-> LineFeeds(raw, offset, Len(raw))]])

CountStep(cmds, raw, order, j, prev, lc, acc, offset) ==
    CountFrom(cmds, raw, order, j + 1, offset, lc + LineFeeds(raw, prev, offset),
              [acc EXCEPT ![order[j]] =
                  [Label |-> cmds[order[j]].Text,
                   Line |-> lc + LineFeeds(raw, prev, offset)]])

CountFrom(cmds, raw, order, j, prev, lc, acc) ==
    IF j > Len(order) THEN acc
    ELSE CountStep(cmds, raw, order, j, prev, lc, acc,
                   IF cmds[order[j]].OutputByteOffset > Len(raw) THEN Len(raw)
                   ELSE cmds[order[j]].OutputByteOffset)

\* FromCommands, given the order sort.Slice left the commands in
FromCommands(cmds, raw, order) ==
    IF Len(cmds) = 0 THEN <<>>
    ELSE CountFrom(cmds, raw, order, 1, 0, 0,
                   [i \in 1..Len(cmds) |-> [Label |-> <<>>, Line |-> 0]])

-----------------------------------------------------------------------------
(* Inputs of the batch functions.                                          *)

\* pieces of text the inputs are assembled from
TokA     == <<97>>                          \* "a"
TokSp    == <<32>>                          \* " "
TokClear == <<27, 91, 50, 74>>              \* ESC [ 2 J
TokHome  == <<27, 91, 72>>                  \* ESC [ H
TokEnter == <<27, 91, 63, 52, 55, 104>>     \* ESC [ ? 4 7 h
TokLeave == <<27, 91, 63, 49, 48, 52, 57, 108>>   \* ESC [ ? 1 0 4 9 l
TokCsi   == <<27, 91>>                      \* ESC [      (an unfinished sequence)
TokTwoJ  == <<50, 74>>                      \* 2 J        (the rest of one)

BatchTokens == {TokA, TokSp, TokClear, TokHome, TokEnter, TokLeave, TokCsi, TokTwoJ}

\* every enter and leave sequence: codes 1049, 47, 1047
EnterSeqs ==
    { <<27, 91, 63, 49, 48, 52, 57, 104>>, <<27, 91, 63, 52, 55, 104>>,
      <<27, 91, 63, 49, 48, 52, 55, 104>> }
LeaveSeqs ==
    { <<27, 91, 63, 49, 48, 52, 57, 108>>, <<27, 91, 63, 52, 55, 108>>,
      <<27, 91, 63, 49, 48, 52, 55, 108>> }

\* the clear sequences used in shaped inputs
ClearSeqs ==
    { TokClear, <<27, 91, 51, 74>>, <<27, 91, 72, 27, 91, 50, 74>>,
      <<27, 91, 50, 74, 27, 91, 72>>, <<27, 91, 49, 59, 49, 72, 27, 91, 74>>,
      <<27, 91, 72, 27, 91, 48, 74>> }

MaxTokens == 4          \* tokens in a free-form batch input
MaxClears == 2          \* clear sequences in a run of consecutive clears

TokenSeqs(T, n) == UNION {[1..m -> T] : m \in 0..n}
Texts(T, n) == {Concat(ts) : ts \in TokenSeqs(T, n)}

\* P + enter + T + leave + S
\* "", "a", " ", "\n", "a ", ESC [, "2J", ESC [ ? 1 0
Pieces ==
    { <<>>, TokA, TokSp, <<10>>, <<97, 32>>, TokCsi, TokTwoJ, <<27, 91, 63, 49, 48>> }
AltShapes ==
    {P \o e \o T \o l \o S :
        P \in Pieces, e \in EnterSeqs, T \in Pieces, l \in LeaveSeqs, S \in Pieces}

\* the whitespace runs between consecutive clears
Blanks == {<<>>, <<32>>, <<10, 32>>}

\* c1 w1 c2 ... cn : runs of n >= 1 clears with whitespace between them
RECURSIVE ClearRuns(_)
ClearRuns(n) ==
    IF n <= 1 THEN ClearSeqs
    ELSE ClearRuns(n - 1)
         \cup {r \o w \o TokClear : r \in ClearRuns(n - 1), w \in Blanks}

\* A c1 w1 ... cn B with A and B holding non-whitespace and no clear
ClearEnds == {<<97>>, <<32, 98>>, <<97, 10>>}
ClearShapes ==
    {A \o r \o B : A \in ClearEnds, r \in ClearRuns(MaxClears), B \in ClearEnds \cup Blanks}

\* P + X + enter + T + L + S: a region with clears or a stray leave before
\* its enter, with and without its leave, and with a clear after it
RegionShapes ==
    {P \o X \o TokEnter \o T \o L \o S :
        P \in {<<>>, TokA},
        X \in {<<>>, TokClear, TokClear \o TokA \o TokClear, TokLeave \o TokA},
        T \in {<<>>, TokA},
        L \in {<<>>, TokLeave},
        S \in {<<>>, TokA, TokA \o TokClear \o TokA}}

\* "Script started on Wed\nCommand: bash\n" + body + "\n\nScript done on Wed"
HeaderText ==
    <<83, 99, 114, 105, 112, 116, 32, 115, 116, 97, 114, 116, 101, 100, 32, 111,
      110, 32, 87, 101, 100, 10, 67, 111, 109, 109, 97, 110, 100, 58, 32, 98, 97,
      115, 104, 10>>
FooterText ==
    <<10, 10, 83, 99, 114, 105, 112, 116, 32, 100, 111, 110, 101, 32, 111, 110,
      32, 87, 101, 100>>
FramedBodies ==
    { <<104, 105>>, <<104, 105>> \o TokClear \o <<121, 111>>,
      <<104, 105, 10>> \o TokEnter \o TokA \o TokLeave \o <<121, 111>> }

\* recordings with and without their header and footer
FramedSessions ==
    {h \o b \o f : h \in {<<>>, HeaderText}, b \in FramedBodies, f \in {<<>>, FooterText}}

BatchInputs ==
    Texts(BatchTokens, MaxTokens) \cup AltShapes \cup ClearShapes \cup RegionShapes
      \cup FramedSessions

NoMap == [regions |-> <<>>, dstLen |-> 0]
NoRes == [text |-> <<>>, inter |-> <<>>, map1 |-> NoMap, map2 |-> NoMap]

-----------------------------------------------------------------------------
(* The batch functions as operations: each is applied once to the input.   *)

BatchInit == content \in BatchInputs /\ op = "none" /\ res = NoRes

DoClear ==
    /\ op = "none"
    /\ op' = "clear"
    /\ res' = [NoRes EXCEPT !.text = NeutralizeClearSequences(content)]
    /\ UNCHANGED content
    /\ UNCHANGED <<streamVars, cmdVars, tocVars, buildVars, stripVars, pairVars>>

DoAlt ==
    /\ op = "none"
    /\ op' = "alt"
    /\ res' = [NoRes EXCEPT !.text = NeutralizeAltScreenSequences(content)]
    /\ UNCHANGED content
    /\ UNCHANGED <<streamVars, cmdVars, tocVars, buildVars, stripVars, pairVars>>

DoStrip ==
    /\ op = "none"
    /\ op' = "strip"
    /\ res' = [NoRes EXCEPT !.text = StripMetadata(content)]
    /\ UNCHANGED content
    /\ UNCHANGED <<streamVars, cmdVars, tocVars, buildVars, stripVars, pairVars>>

DoAllWithOffsets ==
    /\ op = "none"
    /\ op' = "offsets"
    /\ res' = NeutralizeAllWithOffsets(content)
    /\ UNCHANGED content
    /\ UNCHANGED <<streamVars, cmdVars, tocVars, buildVars, stripVars, pairVars>>

BatchNext == DoClear \/ DoAlt \/ DoStrip \/ DoAllWithOffsets

-----------------------------------------------------------------------------
(* The streaming cleaner driven by a caller that writes the input in       *)
(* chunks and then calls end, as testStreaming and processWithStreaming do. *)

\* chunk sizes of verifyChunkIndependence
ChunkSizes == {1, 7, 1024}

StreamTokens == {TokA, TokSp, TokClear, TokEnter, TokLeave}
MaxStreamTokens == 3    \* tokens in a short stream

\* "x" n times
Xs(n) == [i \in 1..n |-> 120]

\* five line feeds, so that header handling completes, then filler that
\* leaves the head of the stream d characters short of the trailing window
LongTail(d) == <<10, 10, 10, 10, 10>> \o Xs(TRAILING_SIZE - 5 - d)

\* heads of the long streams: a + clear, a + clear + " " + clear,
\* a + enter + a + leave
LongHeads ==
    { TokA \o TokClear,
      TokA \o TokClear \o TokSp \o TokClear,
      TokA \o TokEnter \o TokA \o TokLeave }

\* the whole-stream chunk cuts the head d characters before its end
TailCuts == {0, 1}

\* "\n\nSaving session\nCommand exit status: 0\n\nScript done on Wed\n"
LongFooterText ==
    <<10, 10, 83, 97, 118, 105, 110, 103, 32, 115, 101, 115, 115, 105, 111, 110, 10, 67, 111, 109, 109, 97, 110, 100, 32, 101, 120, 105, 116, 32, 115, 116, 97, 116, 117, 115, 58, 32, 48, 10, 10, 83, 99, 114, 105, 112, 116, 32, 100, 111, 110, 101, 32, 111, 110, 32, 87, 101, 100, 10>>

\* "k\nz\n" and filler: a body longer than the trailing window, so that
\* writes pass text to the callback before end is called
LongBody == <<107, 10, 122, 10>> \o [i \in 1..(TRAILING_SIZE + 20) |-> 122]

\* sessions with a footer, with and without a header, longer than the window
LongSessions ==
    {h \o LongBody \o f : h \in {<<>>, HeaderText}, f \in {FooterText, LongFooterText}}

\* a session of one line, twice as long as the window and the escape carry
\* together, and one more
OneLineSession == [i \in 1..(2 * (TRAILING_SIZE + EscapeWindow) + 1) |-> 122]

\* "a" enter "q" leave "b", and "a" enter "q" leave before a long tail: the
\* "q" is what the full-screen program drew
TokQ == <<113>>
AltSessions ==
    {TokA \o TokEnter \o TokQ \o TokLeave \o <<98>>}
      \cup {TokA \o TokEnter \o TokQ \o TokLeave \o LongTail(d) : d \in TailCuts}

\* "a" clear " ", a window of text and the start of an escape sequence: the
\* write of the whole text hands "a" clear " " on and carries the rest
OwedBeforeWindow == TokA \o TokClear \o TokSp \o LongTail(0) \o <<27, 91>>

StreamInputs ==
    Texts(StreamTokens, MaxStreamTokens)
      \cup {h \o LongTail(d) : h \in LongHeads, d \in TailCuts}
      \cup {HeaderText \o b \o FooterText : b \in FramedBodies}
      \cup LongSessions
      \cup {OneLineSession}
      \cup AltSessions
      \cup {OwedBeforeWindow}

\* the cleaner's variables as one value, and their assignment
Cleaner ==
    [headerBuffer |-> headerBuffer, headerStripped |-> headerStripped,
     hasEmittedContent |-> hasEmittedContent, pendingSeparator |-> pendingSeparator,
     pendingWhitespace |-> pendingWhitespace,
     inAltScreen |-> inAltScreen,
     altScreenHadContentBefore |-> altScreenHadContentBefore,
     escapeBuffer |-> escapeBuffer, trailingBuffer |-> trailingBuffer,
     out |-> out, calls |-> calls]

Becomes(c) ==
    /\ headerBuffer' = c.headerBuffer
    /\ headerStripped' = c.headerStripped
    /\ hasEmittedContent' = c.hasEmittedContent
    /\ pendingSeparator' = c.pendingSeparator
    /\ pendingWhitespace' = c.pendingWhitespace
    /\ inAltScreen' = c.inAltScreen
    /\ altScreenHadContentBefore' = c.altScreenHadContentBefore
    /\ escapeBuffer' = c.escapeBuffer
    /\ trailingBuffer' = c.trailingBuffer
    /\ out' = c.out
    /\ calls' = c.calls

StreamInit ==
    /\ input \in StreamInputs /\ pos = 0
    /\ headerBuffer = NewCleaner.headerBuffer
    /\ headerStripped = NewCleaner.headerStripped
    /\ hasEmittedContent = NewCleaner.hasEmittedContent
    /\ pendingSeparator = NewCleaner.pendingSeparator
    /\ pendingWhitespace = NewCleaner.pendingWhitespace
    /\ inAltScreen = NewCleaner.inAltScreen
    /\ altScreenHadContentBefore = NewCleaner.altScreenHadContentBefore
    /\ escapeBuffer = NewCleaner.escapeBuffer
    /\ trailingBuffer = NewCleaner.trailingBuffer
    /\ out = NewCleaner.out
    /\ calls = NewCleaner.calls
    /\ ended = FALSE

\* cleaner.write(input.slice(pos, pos + n))
WriteChunk ==
    /\ ~ended
    /\ pos < Len(input)
    /\ \E n \in ChunkSizes :
         /\ Becomes(write(Cleaner, Slice(input, pos, Min(pos + n, Len(input)))))
         /\ pos' = Min(pos + n, Len(input))
    /\ UNCHANGED <<input, ended>>
    /\ UNCHANGED <<batchVars, cmdVars, tocVars, buildVars, stripVars, pairVars>>

\* cleaner.end() once everything has been written
EndStream ==
    /\ ~ended
    /\ pos = Len(input)
    /\ Becomes(end(Cleaner))
    /\ ended' = TRUE
    /\ UNCHANGED <<input, pos>>
    /\ UNCHANGED <<batchVars, cmdVars, tocVars, buildVars, stripVars, pairVars>>

StreamNext == WriteChunk \/ EndStream

-----------------------------------------------------------------------------
(* Two streaming cleaners of one page or process: they share clearPattern  *)
(* and altScreenPattern, and their callers' writes interleave call by call.*)

CleanerIds == {1, 2}

\* chunk sizes of the two callers
PairChunkSizes == {7, 1024}

\* five line feeds, "a" and an enter followed by a window of filler: one
\* write of the whole text processes a text that ends with the enter
EnterBeforeWindow == <<10, 10, 10, 10, 10>> \o TokA \o TokEnter \o Xs(TRAILING_SIZE)

\* "a" enter; enter "q" leave "b"; "a" clear "a"; and the long text
PairInputs ==
    { TokA \o TokEnter,
      TokEnter \o TokQ \o TokLeave \o <<98>>,
      TokA \o TokClear \o TokA,
      EnterBeforeWindow }

\* both lastIndex at 0, as the module leaves them when it is loaded
NewPatterns == [clear |-> 0, alt |-> 0, ran |-> FALSE]

\* the shared pattern objects as a call finds them
Patterns == [clear |-> clearLastIndex, alt |-> altLastIndex, ran |-> FALSE]

\* the next chunk of cleaner x's caller, n characters long
PairChunk(x, n) ==
    Slice(pairInput[x], pairPos[x], Min(pairPos[x] + n, Len(pairInput[x])))

\* the state after a call on cleaner x that returned r = [c, g]
PairBecomes(x, r) ==
    /\ pairCleaner' = [pairCleaner EXCEPT ![x] = r.c]
    /\ clearLastIndex' = r.g.clear
    /\ altLastIndex' = r.g.alt
    /\ leftBy' = IF r.g.alt = 0 THEN 0 ELSE IF r.g.ran THEN x ELSE leftBy
    /\ crossStale' = (crossStale \/ (r.g.ran /\ altLastIndex > 0 /\ leftBy \notin {0, x}))

\* a call on a cleaner that has the pattern objects to itself
AloneStep(r) == [c |-> r.c, g |-> [r.g EXCEPT !.ran = FALSE]]

PairInit ==
    /\ pairInput \in [CleanerIds -> PairInputs]
    /\ pairPos = [x \in CleanerIds |-> 0]
    /\ pairCleaner = [x \in CleanerIds |-> NewCleaner]
    /\ pairAlone = [x \in CleanerIds |-> [c |-> NewCleaner, g |-> NewPatterns]]
    /\ pairFresh = [x \in CleanerIds |-> NewCleaner]
    /\ pairEnded = [x \in CleanerIds |-> FALSE]
    /\ clearLastIndex = 0 /\ altLastIndex = 0
    /\ leftBy = 0 /\ crossStale = FALSE

\* one of the cleaners is written its next chunk
PairWrite ==
    /\ \E x \in CleanerIds, n \in PairChunkSizes :
         /\ ~pairEnded[x]
         /\ pairPos[x] < Len(pairInput[x])
         /\ PairBecomes(x, writeOn(pairCleaner[x], PairChunk(x, n), Patterns))
         /\ pairAlone' = [pairAlone EXCEPT ![x] =
                             AloneStep(writeOn(@.c, PairChunk(x, n), @.g))]
         /\ pairFresh' = [pairFresh EXCEPT ![x] = write(@, PairChunk(x, n))]
         /\ pairPos' = [pairPos EXCEPT ![x] = Min(@ + n, Len(pairInput[x]))]
    /\ UNCHANGED <<pairInput, pairEnded>>
    /\ UNCHANGED <<batchVars, streamVars, cmdVars, tocVars, buildVars, stripVars>>

\* one of the cleaners is ended once its text has been written
PairEnd ==
    /\ \E x \in CleanerIds :
         /\ ~pairEnded[x]
         /\ pairPos[x] = Len(pairInput[x])
         /\ PairBecomes(x, endOn(pairCleaner[x], Patterns))
         /\ pairAlone' = [pairAlone EXCEPT ![x] = AloneStep(endOn(@.c, @.g))]
         /\ pairFresh' = [pairFresh EXCEPT ![x] = end(@)]
         /\ pairEnded' = [pairEnded EXCEPT ![x] = TRUE]
    /\ UNCHANGED <<pairInput, pairPos>>
    /\ UNCHANGED <<batchVars, streamVars, cmdVars, tocVars, buildVars, stripVars>>

PairNext == PairWrite \/ PairEnd

-----------------------------------------------------------------------------
(* Driver of the command extractor: a recording is a sequence of timing    *)
(* entries; every Input entry comes with the keystroke bytes it counts.    *)

KeyL     == <<108>>                 \* a printable key
KeyCR    == <<13>>                  \* Enter
KeyLF    == <<10>>
KeyCtrlC == <<3>>
KeyTab   == <<9>>
KeyUp    == <<27, 91, 65>>          \* arrow up
KeyCRL   == <<13, 108>>             \* Enter and the next key in one entry
KeyCtrlRight == <<27, 91, 49, 59, 53, 67>>   \* ESC [ 1 ; 5 C

MaxEntries == 4

RecordedEntries ==
    {[Type |-> "O", Bytes |-> <<120>>], [Type |-> "H", Bytes |-> <<>>],
     [Type |-> "S", Bytes |-> <<>>]}
    \cup {[Type |-> "I", Bytes |-> b] :
            b \in {KeyL, KeyCR, KeyLF, KeyCtrlC, KeyTab, KeyUp, KeyCRL, KeyCtrlRight}}

Recordings == UNION {[1..n -> RecordedEntries] : n \in 0..MaxEntries}

\* the timing entries of a recording
TimingOf(rec) ==
    [i \in 1..Len(rec) |-> [Type |-> rec[i].Type, ByteCount |-> Len(rec[i].Bytes)]]

\* the session.input content of a recording
InputOf(rec) ==
    Concat([i \in 1..Len(rec) |-> IF rec[i].Type = "I" THEN rec[i].Bytes ELSE <<>>])

Extractor ==
    [inputOffset |-> inputOffset, outputOffset |-> outputOffset,
     currentInput |-> currentInput, commandOutputOffset |-> commandOutputOffset,
     commands |-> commands]

ExtractorBecomes(x) ==
    /\ inputOffset' = x.inputOffset
    /\ outputOffset' = x.outputOffset
    /\ currentInput' = x.currentInput
    /\ commandOutputOffset' = x.commandOutputOffset
    /\ commands' = x.commands

CmdInit ==
    /\ \E rec \in Recordings :
         /\ entries = TimingOf(rec)
         /\ inputContent = InputOf(rec)
    /\ idx = 1
    /\ inputOffset = NewExtractor.inputOffset
    /\ outputOffset = NewExtractor.outputOffset
    /\ currentInput = NewExtractor.currentInput
    /\ commandOutputOffset = NewExtractor.commandOutputOffset
    /\ commands = NewExtractor.commands
    /\ cmdDone = FALSE

\* one iteration of "for _, e := range entries"
ExtractEntry ==
    /\ ~cmdDone
    /\ idx <= Len(entries)
    /\ ExtractorBecomes(ExtractStep(Extractor, entries[idx], inputContent))
    /\ idx' = idx + 1
    /\ UNCHANGED <<entries, inputContent, cmdDone>>
    /\ UNCHANGED <<batchVars, streamVars, tocVars, buildVars, stripVars, pairVars>>

\* the code after the loop, and the return
ExtractReturn ==
    /\ ~cmdDone
    /\ idx > Len(entries)
    /\ ExtractorBecomes(ExtractFinish(Extractor))
    /\ cmdDone' = TRUE
    /\ UNCHANGED <<entries, inputContent, idx>>
    /\ UNCHANGED <<batchVars, streamVars, tocVars, buildVars, stripVars, pairVars>>

CmdNext == ExtractEntry \/ ExtractReturn

-----------------------------------------------------------------------------
(* Driver of BuildTOC: timing.Parse line by line, then the rest of         *)
(* BuildTOC on the parsed entries.                                         *)

MaxTimingLines == 3

TL_Output     == <<79, 32, 48, 46, 53, 32, 49>>     \* "O 0.5 1"
TL_Input      == <<73, 32, 48, 46, 53, 32, 50>>     \* "I 0.5 2"
TL_Header     == <<72, 32, 48, 46, 53>>     \* "H 0.5", a short header record
TL_HeaderBad  == <<72, 32, 120>>     \* "H x", a header whose delay is no number
TL_Classic    == <<48, 46, 53, 32, 49>>     \* "0.5 1"
TL_Blank      == <<32>>     \* " "
TL_OneField   == <<103>>     \* "g"
TL_BadDelay   == <<79, 32, 120, 32, 49>>     \* "O x 1"
TL_BadCount   == <<73, 32, 48, 46, 53, 32, 120>>     \* "I 0.5 x"
TL_Short      == <<79, 32, 48, 46, 53>>     \* "O 0.5"
TL_Negative   == <<73, 32, 48, 46, 53, 32, 45, 49>>     \* "I 0.5 -1"
TL_Digit      == <<53, 32, 49>>     \* "5 1", a classic line whose first field is one digit

TimingLines ==
    {TL_Output, TL_Input, TL_Header, TL_HeaderBad, TL_Classic, TL_Blank,
     TL_OneField, TL_BadDelay, TL_BadCount, TL_Short, TL_Negative, TL_Digit}

TimingFiles ==
    {JoinLines(ls) : ls \in UNION {[1..n -> TimingLines] : n \in 0..MaxTimingLines}}

\* the contents of the input log: "l\rl\r", or nothing typed
BuildInputs == {<<108, 13, 108, 13>>, <<>>}

\* the content of the session log between a header and a footer line:
\* "\nx\n", or "a" enter "\n" leave "\nx\n"
BuildSessions ==
    { HeaderText \o <<10, 120, 10>> \o FooterText,
      HeaderText \o TokA \o TokEnter \o <<10>> \o TokLeave \o <<10, 120, 10>>
          \o FooterText }

BuildInit ==
    /\ timingText \in TimingFiles
    /\ buildInput \in BuildInputs
    /\ buildSession \in BuildSessions
    /\ lineNum = 0
    /\ parsed = <<>>
    /\ parseErr = 0
    /\ buildState = "parsing"
    /\ buildResult = <<>>

\* one iteration of the loop of Parse: the next line is scanned and trimmed,
\* skipped when blank, else parsed; a line parseLine rejects ends Parse with
\* the error
ParseBecomes(st) ==
    /\ parsed' = st.entries
    /\ parseErr' = st.line
    /\ buildState' = IF st.err THEN "failed" ELSE "parsing"

ParseLine ==
    /\ buildState = "parsing"
    /\ lineNum < Len(ScanLines(timingText))
    /\ lineNum' = lineNum + 1
    /\ IF TrimSpace(ScanLines(timingText)[lineNum + 1]) = <<>>
       THEN UNCHANGED <<parsed, parseErr, buildState>>
       ELSE ParseBecomes(ParseIteration(parsed, lineNum + 1,
                           parseLine(TrimSpace(ScanLines(timingText)[lineNum + 1]))))
    /\ UNCHANGED <<timingText, buildInput, buildSession, buildResult>>
    /\ UNCHANGED <<batchVars, streamVars, cmdVars, tocVars, stripVars, pairVars>>

\* the scanner is exhausted: Parse returns the entries
ParseReturn ==
    /\ buildState = "parsing"
    /\ lineNum = Len(ScanLines(timingText))
    /\ buildState' = "parsed"
    /\ UNCHANGED <<timingText, buildInput, buildSession, lineNum, parsed, parseErr,
                   buildResult>>
    /\ UNCHANGED <<batchVars, streamVars, cmdVars, tocVars, stripVars, pairVars>>

\* BuildTOC on err != nil
BuildReturnNil ==
    /\ buildState = "failed"
    /\ buildState' = "returned"
    /\ buildResult' = <<>>
    /\ UNCHANGED <<timingText, buildInput, buildSession, lineNum, parsed, parseErr>>
    /\ UNCHANGED <<batchVars, streamVars, cmdVars, tocVars, stripVars, pairVars>>

\* the commands with their offsets mapped into the processed output
MappedCommands(cmds, r) ==
    [i \in 1..Len(cmds) |->
        [cmds[i] EXCEPT !.OutputByteOffset = MapFn(r, cmds[i].OutputByteOffset)]]

\* BuildTOC from the processed output on: the entries it may return
TocOfMapped(mapped, processed) ==
    {FromCommands(mapped, processed, order) : order \in SortResults(mapped)}

TocOfCommands(cmds, r) == TocOfMapped(MappedCommands(cmds, r), r.text)

\* BuildTOC after a successful Parse
BuildFinish ==
    /\ buildState = "parsed"
    /\ IF SliceFault(parsed, StripMetadataOnly(buildInput))
       THEN /\ buildState' = "panicked"
            /\ buildResult' = <<>>
       ELSE /\ buildState' = "returned"
            /\ IF Len(ExtractCommands(parsed, StripMetadataOnly(buildInput))) = 0
               THEN buildResult' = <<>>
               ELSE buildResult' \in
                      TocOfCommands(ExtractCommands(parsed, StripMetadataOnly(buildInput)),
                                    NeutralizeAllWithOffsets(StripMetadataOnly(buildSession)))
    /\ UNCHANGED <<timingText, buildInput, buildSession, lineNum, parsed, parseErr>>
    /\ UNCHANGED <<batchVars, streamVars, cmdVars, tocVars, stripVars, pairVars>>

BuildNext == ParseLine \/ ParseReturn \/ BuildReturnNil \/ BuildFinish

-----------------------------------------------------------------------------
(* Driver of the metadata strippers: a session log assembled from header   *)
(* lines, body lines and footer lines, stripped once and once more.        *)

MaxBodyLines == 3

SL_Started  == <<83, 99, 114, 105, 112, 116, 32, 115, 116, 97, 114, 116, 101, 100, 32, 111, 110, 32, 87, 101, 100>>      \* "Script started on Wed"
SL_Command  == <<67, 111, 109, 109, 97, 110, 100, 58, 32, 98, 97, 115, 104>>      \* "Command: bash"
SL_Linux    == <<83, 99, 114, 105, 112, 116, 32, 115, 116, 97, 114, 116, 101, 100, 32, 111, 110, 32, 87, 101, 100, 32, 91, 67, 79, 77, 77, 65, 78, 68, 61, 98, 97, 115, 104, 93>>      \* "Script started on Wed [COMMAND=bash]"
SL_Saving   == <<83, 97, 118, 105, 110, 103, 32, 115, 101, 115, 115, 105, 111, 110>>      \* "Saving session"
SL_Exit     == <<67, 111, 109, 109, 97, 110, 100, 32, 101, 120, 105, 116, 32, 115, 116, 97, 116, 117, 115, 58, 32, 48>>      \* "Command exit status: 0"
SL_Done     == <<83, 99, 114, 105, 112, 116, 32, 100, 111, 110, 101, 32, 111, 110, 32, 87, 101, 100>>      \* "Script done on Wed"

\* no header, the two-line header, the one-line header
HeaderShapes == {<<>>, <<SL_Started, SL_Command>>, <<SL_Linux>>}

\* no footer, a footer line and the final line feed, a footer with blank
\* lines around its markers, blank lines alone
FooterShapes ==
    {<<>>, <<SL_Done, <<>>>>, <<<<>>, SL_Saving, <<>>, SL_Exit, SL_Done>>, <<<<>>, <<>>>>}

\* "a", "", " ", "b" ESC [ 2 J "c", and two lines that start with a marker
BodyLines ==
    {<<97>>, <<>>, <<32>>, <<98>> \o TokClear \o <<99>>, SL_Done, SL_Command}

BodyShapes == UNION {[1..n -> BodyLines] : n \in 0..MaxBodyLines}

StripInit ==
    /\ \E h \in HeaderShapes, body \in BodyShapes, f \in FooterShapes :
         /\ stripInput = JoinLines(h \o body \o f)
         /\ stripBody = JoinLines(body)
    /\ stripOp = "none"
    /\ stripOnce = <<>>
    /\ stripTwice = <<>>

DoStripOnly ==
    /\ stripOp = "none"
    /\ stripOp' = "only"
    /\ stripOnce' = StripMetadataOnly(stripInput)
    /\ UNCHANGED <<stripInput, stripBody, stripTwice>>
    /\ UNCHANGED <<batchVars, streamVars, cmdVars, tocVars, buildVars, pairVars>>

DoStripOnlyAgain ==
    /\ stripOp = "only"
    /\ stripOp' = "only2"
    /\ stripTwice' = StripMetadataOnly(stripOnce)
    /\ UNCHANGED <<stripInput, stripBody, stripOnce>>
    /\ UNCHANGED <<batchVars, streamVars, cmdVars, tocVars, buildVars, pairVars>>

DoStripFull ==
    /\ stripOp = "none"
    /\ stripOp' = "full"
    /\ stripOnce' = StripMetadata(stripInput)
    /\ UNCHANGED <<stripInput, stripBody, stripTwice>>
    /\ UNCHANGED <<batchVars, streamVars, cmdVars, tocVars, buildVars, pairVars>>

DoStripFullAgain ==
    /\ stripOp = "full"
    /\ stripOp' = "full2"
    /\ stripTwice' = StripMetadata(stripOnce)
    /\ UNCHANGED <<stripInput, stripBody, stripOnce>>
    /\ UNCHANGED <<batchVars, streamVars, cmdVars, tocVars, buildVars, pairVars>>

StripNext == DoStripOnly \/ DoStripOnlyAgain \/ DoStripFull \/ DoStripFullAgain

-----------------------------------------------------------------------------
(* Driver of FromCommands.                                                 *)

MaxTocCommands == 2
MaxOutputLen == 3

TocLabels == {<<108>>, <<112>>}
TocOffsets == 0..(MaxOutputLen + 1)
TocCommandSet == [Text : TocLabels, OutputByteOffset : TocOffsets]
TocCommandLists == UNION {[1..n -> TocCommandSet] : n \in 0..MaxTocCommands}
RawOutputs == UNION {[1..n -> {120, 10}] : n \in 0..MaxOutputLen}

ZeroEntry == [Label |-> <<>>, Line |-> 0]

TocInit ==
    /\ tocCommands \in TocCommandLists
    /\ rawOutput \in RawOutputs
    /\ sorted = <<>> /\ k = 0 /\ prevOffset = 0 /\ lineCount = 0
    /\ tocEntries = <<>>
    /\ tocDone = FALSE

\* len(commands) == 0: return nil
TocReturnNil ==
    /\ ~tocDone
    /\ tocCommands = <<>>
    /\ tocDone' = TRUE
    /\ UNCHANGED <<tocCommands, rawOutput, sorted, k, prevOffset, lineCount,
                   tocEntries>>
    /\ UNCHANGED <<batchVars, streamVars, cmdVars, buildVars, stripVars, pairVars>>

\* sort.Slice and the allocation of entries
TocSort ==
    /\ ~tocDone
    /\ tocCommands # <<>>
    /\ sorted = <<>>
    /\ sorted' \in SortResults(tocCommands)
    /\ tocEntries' = [i \in 1..Len(tocCommands) |-> ZeroEntry]
    /\ UNCHANGED <<tocCommands, rawOutput, k, prevOffset, lineCount, tocDone>>
    /\ UNCHANGED <<batchVars, streamVars, cmdVars, buildVars, stripVars, pairVars>>

\* one iteration of "for _, sc := range sorted"
TocCount ==
    /\ ~tocDone
    /\ sorted # <<>>
    /\ k < Len(sorted)
    /\ LET origIndex == sorted[k + 1]
           cmd    == tocCommands[origIndex]
           offset == IF cmd.OutputByteOffset > Len(rawOutput)
                     THEN Len(rawOutput) ELSE cmd.OutputByteOffset
           lc     == lineCount + LineFeeds(rawOutput, prevOffset, offset)
       IN /\ lineCount' = lc
          /\ prevOffset' = offset
          /\ tocEntries' = [tocEntries EXCEPT ![origIndex] =
                               [Label |-> cmd.Text, Line |-> lc]]
    /\ k' = k + 1
    /\ UNCHANGED <<tocCommands, rawOutput, sorted, tocDone>>
    /\ UNCHANGED <<batchVars, streamVars, cmdVars, buildVars, stripVars, pairVars>>

\* return entries
TocReturn ==
    /\ ~tocDone
    /\ sorted # <<>>
    /\ k = Len(sorted)
    /\ tocDone' = TRUE
    /\ UNCHANGED <<tocCommands, rawOutput, sorted, k, prevOffset, lineCount,
                   tocEntries>>
    /\ UNCHANGED <<batchVars, streamVars, cmdVars, buildVars, stripVars, pairVars>>

TocNext == TocReturnNil \/ TocSort \/ TocCount \/ TocReturn

-----------------------------------------------------------------------------
(* Components that take no part in a specification rest in these states.   *)

BatchIdle == content = <<>> /\ op = "done" /\ res = NoRes

StreamIdle ==
    /\ input = <<>> /\ pos = 0
    /\ headerBuffer = <<>> /\ headerStripped = FALSE
    /\ hasEmittedContent = FALSE /\ pendingSeparator = FALSE
    /\ pendingWhitespace = <<>>
    /\ inAltScreen = FALSE /\ altScreenHadContentBefore = FALSE
    /\ escapeBuffer = <<>> /\ trailingBuffer = <<>>
    /\ out = <<>> /\ calls = 0 /\ ended = TRUE

CmdIdle ==
    /\ entries = <<>> /\ inputContent = <<>> /\ idx = 1
    /\ inputOffset = 0 /\ outputOffset = 0 /\ currentInput = <<>>
    /\ commandOutputOffset = 0 /\ commands = <<>> /\ cmdDone = TRUE

TocIdle ==
    /\ tocCommands = <<>> /\ rawOutput = <<>> /\ sorted = <<>> /\ k = 0
    /\ prevOffset = 0 /\ lineCount = 0 /\ tocEntries = <<>> /\ tocDone = TRUE

BuildIdle ==
    /\ timingText = <<>> /\ buildInput = <<>> /\ buildSession = <<>>
    /\ lineNum = 0 /\ parsed = <<>> /\ parseErr = 0
    /\ buildState = "returned" /\ buildResult = <<>>

StripIdle ==
    /\ stripInput = <<>> /\ stripBody = <<>> /\ stripOp = "done"
    /\ stripOnce = <<>> /\ stripTwice = <<>>

PairIdle ==
    /\ pairInput = <<>> /\ pairPos = <<>> /\ pairCleaner = <<>>
    /\ pairAlone = <<>> /\ pairFresh = <<>> /\ pairEnded = <<>>
    /\ clearLastIndex = 0 /\ altLastIndex = 0
    /\ leftBy = 0 /\ crossStale = FALSE

-----------------------------------------------------------------------------
(* SpecStrip: the two strippers on every bounded session log.              *)

InitStrip == StripInit /\ BatchIdle /\ StreamIdle /\ CmdIdle /\ TocIdle /\ BuildIdle /\ PairIdle
SpecStrip == InitStrip /\ [][StripNext]_vars

-----------------------------------------------------------------------------
(* SpecBuild: BuildTOC on every bounded timing file.                       *)

InitBuild == BuildInit /\ BatchIdle /\ StreamIdle /\ CmdIdle /\ TocIdle /\ StripIdle /\ PairIdle
SpecBuild == InitBuild /\ [][BuildNext]_vars

-----------------------------------------------------------------------------
(* SpecBatch: the batch functions applied to every bounded input.          *)

InitBatch == BatchInit /\ StreamIdle /\ CmdIdle /\ TocIdle /\ BuildIdle /\ StripIdle /\ PairIdle
SpecBatch == InitBatch /\ [][BatchNext]_vars

-----------------------------------------------------------------------------
(* SpecStream: the streaming cleaner fed every bounded input in chunks.    *)

InitStream == StreamInit /\ BatchIdle /\ CmdIdle /\ TocIdle /\ BuildIdle /\ StripIdle /\ PairIdle
SpecStream == InitStream /\ [][StreamNext]_vars

-----------------------------------------------------------------------------
(* SpecCmd: ExtractCommands on every bounded recording.                    *)

InitCmd == CmdInit /\ BatchIdle /\ StreamIdle /\ TocIdle /\ BuildIdle /\ StripIdle /\ PairIdle
SpecCmd == InitCmd /\ [][CmdNext]_vars

-----------------------------------------------------------------------------
(* SpecToc: FromCommands on every bounded command list and output.         *)

InitToc == TocInit /\ BatchIdle /\ StreamIdle /\ CmdIdle /\ BuildIdle /\ StripIdle /\ PairIdle
SpecToc == InitToc /\ [][TocNext]_vars

-----------------------------------------------------------------------------
(* SpecPair: two streaming cleaners sharing the pattern objects.           *)

InitPair ==
    PairInit /\ BatchIdle /\ StreamIdle /\ CmdIdle /\ TocIdle /\ BuildIdle /\ StripIdle
SpecPair == InitPair /\ [][PairNext]_vars

-----------------------------------------------------------------------------
(* Vocabulary of the properties, stated on literal sequences rather than   *)
(* through the detectors of the code.                                      *)

HasSuffix(s, p) == OccursAt(s, Len(s) - Len(p), p)
Contains(s, p) == \E i \in 0..(Len(s) - Len(p)) : OccursAt(s, i, p)
ContainsAny(s, ps) == \E p \in ps : Contains(s, p)
CountOf(s, p) == Cardinality({i \in 0..(Len(s) - Len(p)) : OccursAt(s, i, p)})

\* every clear sequence contains one of these
ClearLits ==
    { <<27, 91, 50, 74>>, <<27, 91, 51, 74>>,
      <<27, 91, 72, 27, 91, 74>>, <<27, 91, 72, 27, 91, 48, 74>>,
      <<27, 91, 49, 59, 49, 72, 27, 91, 74>>,
      <<27, 91, 49, 59, 49, 72, 27, 91, 48, 74>> }
AltLits == EnterSeqs \cup LeaveSeqs
NoSequence(s) == ~ContainsAny(s, ClearLits \cup AltLits)

\* the offsets a caller may hand to a mapper over a source of length n
SrcOffsets(n) == (0 - 1)..(n + 1)

\* Map stays within [0, dstLen] and is the affine translation inside every
\* preserved region
MapperSound(m, srcLen) ==
    \A o \in SrcOffsets(srcLen) :
        /\ Map(m, o) >= 0
        /\ Map(m, o) <= m.dstLen
        /\ \A j \in 1..Len(m.regions) :
               (m.regions[j].srcStart <= o /\ o < m.regions[j].srcEnd)
                   => Map(m, o) = m.regions[j].dstStart + (o - m.regions[j].srcStart)

\* C5: for each mapper of a neutralization pass Map(o) lies in [0, dstLen]
\* and is dstStart + (o - srcStart) inside a preserved region, so the
\* composed mapping of NeutralizeAllWithOffsets lies in [0, len(processed)].
C5_MapInRange ==
    op = "offsets" =>
        /\ MapperSound(res.map1, Len(content))
        /\ MapperSound(res.map2, Len(res.inter))
        /\ \A o \in SrcOffsets(Len(content)) :
               MapFn(res, o) >= 0 /\ MapFn(res, o) <= Len(res.text)

\* both passes deleted something and kept something
C5_Witness ==
    /\ op = "offsets"
    /\ Len(res.map1.regions) >= 1
    /\ res.map1.regions[1].srcStart > 0
    /\ Len(res.map2.regions) >= 2
    /\ res.map2.regions[2].dstStart > res.map2.regions[1].dstStart
    /\ MapFn(res, Len(content)) = Len(res.text)

\* the clear matches of c whose neighbouring spans both hold non-whitespace
RealClears(c) ==
    LET ms == ClearMatches(c)
    IN {j \in 1..Len(ms) :
          /\ ~IsBlank(Slice(c, IF j = 1 THEN 0 ELSE ms[j - 1].end, ms[j].start))
          /\ ~IsBlank(Slice(c, ms[j].end,
                            IF j = Len(ms) THEN Len(c) ELSE ms[j + 1].start))}

\* C6: in the output of NeutralizeClearSequences a separator stands only
\* between real content: one per clear whose spans on both sides hold
\* non-whitespace, and the output never begins or ends with ClearSeparator.
C6_SeparatorOnlyBetweenContent ==
    op = "clear" =>
        /\ ~HasPrefix(res.text, ClearSeparator)
        /\ ~HasSuffix(res.text, ClearSeparator)
        /\ CountOf(res.text, ClearSeparator) <= Cardinality(RealClears(content))

\* C8: P + enter + T + leave + S with P, T, S free of clear and
\* alternate-screen sequences gives P + AltScreenSeparator + S when P and S
\* both hold non-whitespace and P + S otherwise.
C8_AltScreenPair ==
    op = "alt" =>
        \A i \in EscOffsets(content) : \A e \in EnterSeqs :
          (OccursAt(content, i, e) /\ NoSequence(Slice(content, 0, i))) =>
            \A j \in EscOffsets(content) : \A l \in LeaveSeqs :
              (/\ i + Len(e) <= j
               /\ OccursAt(content, j, l)
               /\ NoSequence(Slice(content, i + Len(e), j))
               /\ NoSequence(Slice(content, j + Len(l), Len(content))))
              => LET P == Slice(content, 0, i)
                     S == Slice(content, j + Len(l), Len(content))
                 IN res.text = IF ~IsBlank(P) /\ ~IsBlank(S)
                               THEN P \o AltScreenSeparator \o S
                               ELSE P \o S

\* a 1047 pair with content before, inside and after it
C8_Witness ==
    /\ op = "alt"
    /\ content = TokA \o <<27, 91, 63, 49, 48, 52, 55, 104>> \o <<97, 32>>
                   \o <<27, 91, 63, 49, 48, 52, 55, 108>> \o TokA
    /\ res.text = TokA \o AltScreenSeparator \o TokA

\* C9: the output of the batch pipeline (alternate-screen pass, then clear
\* pass, as StripMetadata runs them) holds no clear sequence and no
\* alternate-screen enter or leave sequence.
C9_NoSequenceLeft ==
    op = "strip" => NoSequence(res.text)

\* an input with a clear and an alternate-screen pair, and content kept
C9_Witness ==
    /\ op = "strip"
    /\ ContainsAny(content, ClearLits)
    /\ ContainsAny(content, EnterSeqs)
    /\ ContainsAny(content, LeaveSeqs)
    /\ ~IsBlank(res.text)

-----------------------------------------------------------------------------
(* Properties of the streaming cleaner.                                    *)

\* the UTF-8 encoding of one UTF-16 code unit outside the surrogate range
Utf8Char(c) ==
    IF c < 128 THEN <<c>>
    ELSE IF c < 2048 THEN <<192 + (c \div 64), 128 + (c % 64)>>
    ELSE <<224 + (c \div 4096), 128 + ((c \div 64) % 64), 128 + (c % 64)>>

\* the bytes written for a string (fs.appendFileSync(path, text, 'utf8'))
RECURSIVE Utf8(_)
Utf8(s) ==
    IF s = <<>> THEN <<>>
    ELSE IF Len(s) = 1 THEN Utf8Char(s[1])
    ELSE LET h == Len(s) \div 2
         IN Utf8(SubSeq(s, 1, h)) \o Utf8(SubSeq(s, h + 1, Len(s)))

\* what the cleaner emits when the whole input arrives as one chunk
OneChunkOutput(inp) ==
    end(IF inp = <<>> THEN NewCleaner ELSE write(NewCleaner, inp)).out

\* C1: for every input and every partition into consecutive chunks, the
\* concatenated callback output after end is byte-identical to the batch
\* result (StripMetadata) on the whole input.
C1_StreamEqualsBatch ==
    ended => Utf8(out) = StripMetadata(input)

\* C2: the result does not depend on where chunk boundaries fall: every
\* partition gives the output that the single whole-input chunk gives.
C2_ChunkIndependent ==
    ended => out = OneChunkOutput(input)

\* input = A c1 w1 c2 ... cn B: clears with only whitespace between them,
\* A and B holding non-whitespace, no alternate-screen sequence and no
\* metadata line, B not ending in a blank line
ClearRunShape(inp) ==
    LET ms == ClearMatches(inp)
        n  == Len(ms)
    IN /\ n >= 1
       /\ \A j \in 1..(n - 1) : IsBlank(Slice(inp, ms[j].end, ms[j + 1].start))
       /\ ~IsBlank(Slice(inp, 0, ms[1].start))
       /\ ~IsBlank(Slice(inp, ms[n].end, Len(inp)))
       /\ ~ContainsAny(inp, AltLits)
       /\ inp = StripMetadataOnly(inp)

ClearRunResult(inp) ==
    LET ms == ClearMatches(inp)
    IN Slice(inp, 0, ms[1].start) \o ClearSeparator
         \o Slice(inp, ms[Len(ms)].end, Len(inp))

\* C7: for A c1 w1 c2 ... cn B the clear neutralizer, batch and streaming at
\* every chunk size, returns exactly A + ClearSeparator + B.
C7_ClearRunCollapses ==
    (ended /\ ClearRunShape(input)) =>
        /\ NeutralizeClearSequences(input) = ClearRunResult(input)
        /\ Utf8(out) = ClearRunResult(input)

\* the same for the streams that fit in the trailing window
C7_ShortStreams ==
    (ended /\ ClearRunShape(input) /\ Len(input) <= TRAILING_SIZE) =>
        /\ NeutralizeClearSequences(input) = ClearRunResult(input)
        /\ Utf8(out) = ClearRunResult(input)

-----------------------------------------------------------------------------
(* TOC entries.                                                            *)

\* C3: FromCommands returns one entry per command, in the order of the
\* commands whatever the order of their offsets; entry i carries the text of
\* command i as its label, and as its line the number of line feeds among the
\* first min(offset, len(rawOutput)) bytes of rawOutput.
C3_TocEntries ==
    tocDone =>
        /\ Len(tocEntries) = Len(tocCommands)
        /\ \A i \in 1..Len(tocCommands) :
             /\ tocEntries[i].Label = tocCommands[i].Text
             /\ tocEntries[i].Line =
                  LineFeeds(rawOutput, 0,
                            Min(tocCommands[i].OutputByteOffset, Len(rawOutput)))

\* FromCommands has returned for commands that are out of offset order, one of
\* them beyond the end of the output, and an earlier command is on a later line
C3_Witness ==
    /\ tocDone
    /\ Len(tocCommands) >= 2
    /\ tocCommands[1].OutputByteOffset > Len(rawOutput)
    /\ tocCommands[2].OutputByteOffset < tocCommands[1].OutputByteOffset
    /\ tocEntries[1].Line > tocEntries[2].Line

-----------------------------------------------------------------------------
(* Command extraction.                                                     *)

\* the index of the first terminator of inp at or after s, or -1
RECURSIVE TerminatorFrom(_, _)
TerminatorFrom(inp, s) ==
    IF s >= Len(inp) THEN -1
    ELSE IF IsTerminator(At(inp, s)) THEN s
    ELSE TerminatorFrom(inp, s + 1)

\* the terminated runs of inp, as [start, end) with the terminator included
RECURSIVE RunsFrom(_, _)
RunsFrom(inp, s) ==
    IF TerminatorFrom(inp, s) < 0 THEN <<>>
    ELSE <<[start |-> s, end |-> TerminatorFrom(inp, s) + 1]>>
         \o RunsFrom(inp, TerminatorFrom(inp, s) + 1)

TerminatedRuns(inp) == RunsFrom(inp, 0)

\* the run without its terminator
RunText(inp, r) == Slice(inp, r.start, r.end - 1)

\* the number of keystroke bytes counted by the Input entries before entry i
RECURSIVE InputBefore(_, _)
InputBefore(es, i) ==
    IF i <= 1 THEN 0
    ELSE InputBefore(es, i - 1)
         + (IF es[i - 1].Type = "I" THEN es[i - 1].ByteCount ELSE 0)

\* the number of output bytes counted by the Output entries before entry i
RECURSIVE OutputBefore(_, _)
OutputBefore(es, i) ==
    IF i <= 1 THEN 0
    ELSE OutputBefore(es, i - 1)
         + (IF es[i - 1].Type = "O" THEN es[i - 1].ByteCount ELSE 0)

\* the Input entry that supplies byte p of the input content
SupplierOf(es, p) ==
    CHOOSE i \in 1..Len(es) :
        /\ es[i].Type = "I"
        /\ InputBefore(es, i) <= p
        /\ p < InputBefore(es, i) + es[i].ByteCount

\* a text made of arrow-key escape sequences and control characters only
RECURSIVE ControlsOnly(_)
ControlsOnly(t) ==
    IF t = <<>> THEN TRUE
    ELSE IF HasPrefix(t, KeyUp) THEN ControlsOnly(Slice(t, 3, Len(t)))
    ELSE t[1] < 32 /\ t[1] # 27 /\ ControlsOnly(Tail(t))

\* the runs that are to yield no command: empty, a single control character,
\* one tab, or escape sequences and control characters only
FilteredRun(t) ==
    \/ t = <<>>
    \/ Len(t) = 1 /\ t[1] < 32
    \/ t = KeyTab
    \/ ControlsOnly(t)

\* the offsets the commands should carry: for every run that yields a command,
\* the output bytes counted before the Input entry supplying its first byte
RECURSIVE OffsetsOfRuns(_, _, _)
OffsetsOfRuns(es, inp, runs) ==
    IF runs = <<>> THEN <<>>
    ELSE (IF finalizeCommand(Slice(inp, Head(runs).start, Head(runs).end), 0) = <<>>
          THEN <<>>
          ELSE <<OutputBefore(es, SupplierOf(es, Head(runs).start))>>)
         \o OffsetsOfRuns(es, inp, Tail(runs))

\* C4: every extracted command carries as OutputByteOffset the sum of the
\* byte counts of the Output entries that precede the Input entry which
\* supplied the first byte of the command, also when one Input entry carries
\* the end of one command and the beginning of the next.
C4_OffsetOfFirstByte ==
    cmdDone =>
        [i \in 1..Len(commands) |-> commands[i].OutputByteOffset]
            = OffsetsOfRuns(entries, inputContent, TerminatedRuns(inputContent))

\* the recording with the bytes of run r taken out of the input content and
\* out of the byte counts of the Input entries that supplied them
EntriesWithout(es, r) ==
    [i \in 1..Len(es) |->
        IF es[i].Type = "I"
        THEN [es[i] EXCEPT !.ByteCount =
                 @ - Cardinality({p \in r.start..(r.end - 1) :
                                     /\ InputBefore(es, i) <= p
                                     /\ p < InputBefore(es, i) + es[i].ByteCount})]
        ELSE es[i]]

InputWithout(inp, r) == Slice(inp, 0, r.start) \o Slice(inp, r.end, Len(inp))

\* the texts of the runs that are not filtered, in order
RECURSIVE TextsOfRuns(_, _)
TextsOfRuns(inp, runs) ==
    IF runs = <<>> THEN <<>>
    ELSE (IF FilteredRun(RunText(inp, Head(runs)))
          THEN <<>> ELSE <<RunText(inp, Head(runs))>>)
         \o TextsOfRuns(inp, Tail(runs))

\* every run of the input is either filtered or typed text only
PlainRuns(inp) ==
    \A j \in 1..Len(TerminatedRuns(inp)) :
        LET t == RunText(inp, TerminatedRuns(inp)[j])
        IN FilteredRun(t) \/ \A n \in 1..Len(t) : t[n] >= 32

\* C10: a terminated run that is empty, a single control character, one tab
\* or only escape sequences yields no command, and the commands extracted
\* are those extracted from the recording without that run.
C10_FilteredRunsInert ==
    (cmdDone /\ PlainRuns(inputContent)) =>
        /\ [i \in 1..Len(commands) |-> commands[i].Text]
               = TextsOfRuns(inputContent, TerminatedRuns(inputContent))
        /\ \A j \in 1..Len(TerminatedRuns(inputContent)) :
             LET r == TerminatedRuns(inputContent)[j]
             IN FilteredRun(RunText(inputContent, r)) =>
                    ExtractCommands(EntriesWithout(entries, r),
                                    InputWithout(inputContent, r)) = commands

\* the first half of C10 alone: the commands are the runs that are not filtered
C10_FilteredYieldNothing ==
    (cmdDone /\ PlainRuns(inputContent)) =>
        [i \in 1..Len(commands) |-> commands[i].Text]
            = TextsOfRuns(inputContent, TerminatedRuns(inputContent))

-----------------------------------------------------------------------------
(* C11: unterminated keystrokes.                                           *)

\* the terminators among the bytes of inputContent at offsets a .. b-1
TerminatorsBetween(a, b) ==
    Cardinality({i \in a..(b - 1) : i < Len(inputContent) /\ IsTerminator(At(inputContent, i))})

\* C11: every step of ExtractCommands appends at most as many commands as
\* it consumed CR or LF bytes of the input; the step after the loop, which
\* consumes nothing, appends none, so keystrokes still in the in-progress
\* buffer at the end of the input yield no command.
C11_NoCommandWithoutTerminator ==
    [][Len(commands') - Len(commands) <= TerminatorsBetween(inputOffset, inputOffset')]_vars

\* ExtractCommands has returned with keystrokes left in the buffer, after
\* emitting a command for an earlier, terminated run
C11_Witness ==
    /\ cmdDone
    /\ currentInput # <<>>
    /\ ~IsTerminator(currentInput[Len(currentInput)])
    /\ commands # <<>>

-----------------------------------------------------------------------------
(* C12: malformed lines of the timing log.                                 *)

\* the tag of an advanced-dialect line, <<>> for a classic line
TagOf(fs) == IF Len(fs[1]) = 1 /\ ~isDigit(fs[1][1]) THEN fs[1] ELSE <<>>

\* the line lacks its delay and byte count, or one of them is no number
BadNumbers(fs, d) ==
    Len(fs) < d + 1 \/ ~FloatOk(fs[d]) \/ ~AtoiOk(fs[d + 1])

\* a line with a wrong field count, an unparsable delay or an unparsable
\* byte count; a header or signal line needs no byte count
Malformed(fs) ==
    IF Len(fs) < 2 THEN TRUE
    ELSE IF TagOf(fs) \in {<<72>>, <<83>>} THEN ~FloatOk(fs[2])
    ELSE IF TagOf(fs) # <<>> THEN BadNumbers(fs, 2)
    ELSE BadNumbers(fs, 1)

\* the same, a header or signal line being malformed only when it has fewer
\* than two fields
MalformedToParse(fs) ==
    IF Len(fs) < 2 THEN TRUE
    ELSE IF TagOf(fs) \in {<<72>>, <<83>>} THEN FALSE
    ELSE IF TagOf(fs) # <<>> THEN BadNumbers(fs, 2)
    ELSE BadNumbers(fs, 1)

NonBlankOf(lines) == {n \in 1..Len(lines) : TrimSpace(lines[n]) # <<>>}
NonBlankLines == NonBlankOf(ScanLines(timingText))

MalformedOf(lines) ==
    {n \in 1..Len(lines) :
        TrimSpace(lines[n]) # <<>> /\ Malformed(Fields(TrimSpace(lines[n])))}
RejectedOf(lines) ==
    {n \in 1..Len(lines) :
        TrimSpace(lines[n]) # <<>> /\ MalformedToParse(Fields(TrimSpace(lines[n])))}
MalformedLines == MalformedOf(ScanLines(timingText))
RejectedLines == RejectedOf(ScanLines(timingText))

FirstOf(S) == CHOOSE n \in S : \A m \in S : n <= m
ParseOver == buildState # "parsing"

\* Parse failed, naming the first line of S and returning no entries
FailedAtFirstOf(S) == S # {} => (parseErr = FirstOf(S) /\ parsed = <<>>)

\* C12 as stated: when any non-blank line of the timing log is malformed
\* (too few fields, a delay or a byte count that is no number), Parse has
\* failed with an error naming the first such line and returned no entries.
C12_MalformedLineFailsParse ==
    ParseOver => FailedAtFirstOf(MalformedLines)

\* C12 as amended: the same for the lines Parse treats as malformed, a
\* header or signal line being one only when it has fewer than two fields;
\* the error names the first such line, and no entry is returned whatever
\* valid lines preceded it.
C12_RejectedLineFailsParse ==
    ParseOver => (FailedAtFirstOf(RejectedLines) /\ (RejectedLines # {} => buildState # "parsed"))

\* Parse failed on the third line, after two valid lines
C12_Witness ==
    /\ buildState = "failed"
    /\ parseErr = 3
    /\ NonBlankLines = {1, 2, 3}

-----------------------------------------------------------------------------
(* C13: BuildTOC without navigation.                                       *)

\* the timing log parsed and the walk over its entries extracted no command
NothingExtracted ==
    /\ parseErr = 0
    /\ ~SliceFault(parsed, StripMetadataOnly(buildInput))
    /\ ExtractCommands(parsed, StripMetadataOnly(buildInput)) = <<>>

\* C13: BuildTOC never aborts its caller, and it returns no entries when the
\* timing log failed to parse or no command was extracted.
C13_NoEntriesNoAbort ==
    /\ buildState # "panicked"
    /\ (buildState = "returned" /\ (parseErr # 0 \/ NothingExtracted))
          => buildResult = <<>>

-----------------------------------------------------------------------------
(* C14, C15, C16: the metadata strippers.                                  *)

\* C14: stripping is idempotent: applied to its own result, StripMetadataOnly
\* returns that result, and so does StripMetadata.
C14_StrippingIdempotent ==
    stripOp \in {"only2", "full2"} => stripTwice = stripOnce

\* the body's lines begin with no header or footer marker and the last of
\* them is not blank (or the body is empty)
FramedBody ==
    /\ \A i \in 1..Len(SplitLines(stripBody)) :
          /\ ~IsHeaderLine(SplitLines(stripBody)[i])
          /\ ~IsFooterLine(SplitLines(stripBody)[i])
    /\ stripBody = <<>> \/ ~IsBlank(SplitLines(stripBody)[Len(SplitLines(stripBody))])

HeaderLineNumbers(lines) ==
    {i \in 1..Min(Len(lines), 5) : IsHeaderLine(lines[i])}
LastOf(S) == CHOOSE n \in S : \A m \in S : m <= n
HeaderLenOf(lines, hs) ==
    IF hs = {} THEN 0 ELSE Len(JoinLines(SubSeq(lines, 1, LastOf(hs)))) + 1
HeaderLenOfLines(lines) == HeaderLenOf(lines, HeaderLineNumbers(lines))
RemovedHeaderLen(c) == HeaderLenOfLines(SplitLines(c))

\* r is the part of c that starts at offset h
SubstringAt(r, c, h) ==
    r # <<>> => (h + Len(r) <= Len(c) /\ r = SubSeq(c, h + 1, h + Len(r)))

\* C16: the result of StripMetadataOnly is the input's bytes from the end of
\* the removed header on, contiguous and unchanged: the byte at offset i of
\* the result is the byte at offset i + (length of the removed header) of
\* the input, sequences included.
C16_ContiguousSubstring ==
    stripOp = "only" => SubstringAt(stripOnce, stripInput, RemovedHeaderLen(stripInput))

\* a result that keeps a clear sequence and a blank line, cut out of an input
\* with a header before it and a footer after it
C16_Witness ==
    /\ stripOp = "only"
    /\ RemovedHeaderLen(stripInput) > 0
    /\ RemovedHeaderLen(stripInput) + Len(stripOnce) < Len(stripInput)
    /\ Contains(stripOnce, TokClear)
    /\ Contains(stripOnce, <<10, 10>>)

-----------------------------------------------------------------------------
(* C17, C18: what the streaming cleaner withholds.                         *)

\* the data the cleaner retains between calls
Retained ==
    Len(headerBuffer) + Len(escapeBuffer) + Len(trailingBuffer) + Len(pendingWhitespace)

\* twice the trailing window and the escape carry
RetainedBound == 2 * (TRAILING_SIZE + EscapeWindow)

\* C17: after every write the header buffer, the escape carry, the trailing
\* carry and the pending whitespace together stay within a bound that does
\* not grow with the bytes written (here: twice the trailing window and the
\* escape carry); the cleaner never holds the whole session.
C17_RetainedBounded ==
    ~ended => Retained <= RetainedBound

\* toEmit of write(chunk) in cleaner state c: the text the call hands to
\* processForClears, <<>> when it hands over nothing
HandedOfFull(full) ==
    IF Len(full) > TRAILING_SIZE THEN Slice(full, 0, Len(full) - TRAILING_SIZE) ELSE <<>>
HandedAfterHeader(c, h) ==
    IF h.go THEN HandedOfFull(c.trailingBuffer \o h.text) ELSE <<>>
HandedOfText(c, t) ==
    HandedAfterHeader(c, HeaderStage(c, Slice(t, 0, EscapeCut(t, LastEsc(t)))))
HandedBy(c, chunk) == HandedOfText(c, c.escapeBuffer \o chunk)

\* a clear or alternate-screen sequence of a \o b starts in a and ends in b
Straddles(a, b) ==
    \E p \in ClearLits \cup AltLits :
        \E i \in (Len(a) - Len(p) + 1)..(Len(a) - 1) : i >= 0 /\ OccursAt(a \o b, i, p)

\* C18: no write hands text to neutralization that ends inside a clear or
\* alternate-screen sequence whose remainder the cleaner still withholds in
\* its trailing carry or escape carry.
C18_NoSequenceSplit ==
    [][pos' > pos =>
         ~Straddles(HandedBy(Cleaner, Slice(input, pos, pos')),
                    trailingBuffer' \o escapeBuffer')]_vars

-----------------------------------------------------------------------------
(* C19, C20: footer and header never reach the callback.                   *)

BytesOf(s) == {s[i] : i \in 1..Len(s)}

\* the characters the cleaner itself may add to the output
SeparatorBytes == BytesOf(CLEAR_SEPARATOR) \cup BytesOf(ALT_SCREEN_SEPARATOR)

\* the footer of the input: its marker lines with the blank lines around them
FooterOf(inp) ==
    IF HasSuffix(inp, LongFooterText) THEN LongFooterText
    ELSE IF HasSuffix(inp, FooterText) THEN FooterText
    ELSE <<>>

\* the header lines of the input
HeaderOf(inp) == IF HasPrefix(inp, HeaderText) THEN HeaderText ELSE <<>>

\* the input without its footer, and without its header
BeforeFooter(inp) == Slice(inp, 0, Len(inp) - Len(FooterOf(inp)))
AfterHeaderLines(inp) == Slice(inp, Len(HeaderOf(inp)), Len(inp))

\* the bytes that only part can have supplied: those of part that occur
\* neither in rest nor in the separators (nor are a line feed)
OnlyIn(part, rest) == BytesOf(part) \ (BytesOf(rest) \cup SeparatorBytes \cup {10})

\* C19: when the input ends with a footer that lies within its final 500
\* bytes, the callback has received, after any write and after end, no
\* footer marker and no byte that only the footer holds, and once end has
\* been called the output does not end with the footer's blank lines.
C19_FooterNeverEmitted ==
    (FooterOf(input) # <<>> /\ Len(FooterOf(input)) <= TRAILING_SIZE) =>
        /\ \A m \in FooterMarkers : ~Contains(out, m)
        /\ BytesOf(out) \cap OnlyIn(FooterOf(input), BeforeFooter(AfterHeaderLines(input))) = {}
        /\ (ended /\ out # <<>>) => ~IsSpace(out[Len(out)])

\* a session longer than the window with a footer, passed to the callback
\* by a write and by end
C19_Witness ==
    /\ ended
    /\ HasSuffix(input, LongFooterText)
    /\ Len(input) > TRAILING_SIZE
    /\ calls >= 2
    /\ out # <<>>

\* C20: before the cleaner has been written 5 line feeds, and before end is
\* called, the callback has been invoked for nothing; and no header marker
\* nor any byte that only the header lines hold is ever passed to it.
C20_HeaderWithheld ==
    /\ (~ended /\ LineFeeds(input, 0, pos) < HEADER_LINES_THRESHOLD) =>
          (calls = 0 /\ out = <<>>)
    /\ HeaderOf(input) # <<>> =>
          /\ \A m \in HeaderMarkers : ~Contains(out, m)
          /\ BytesOf(out) \cap OnlyIn(HeaderOf(input), AfterHeaderLines(input)) = {}

\* a session with a header, written in chunks smaller than the header, whose
\* text reached the callback before end was called
C20_Witness ==
    /\ ~ended
    /\ HasPrefix(input, HeaderText)
    /\ pos < Len(input)
    /\ pos % 7 # 0
    /\ calls >= 1
    /\ out # <<>>

-----------------------------------------------------------------------------
(* C21, C22: the streaming cleaner around alternate screens and clears.     *)

\* offset i of inp lies after an enter sequence and before the next leave
InAltRegion(inp, i) ==
    \E a \in EscOffsets(inp) : \E e \in EnterSeqs :
        /\ OccursAt(inp, a, e)
        /\ a + Len(e) <= i
        /\ \A b \in EscOffsets(inp) : \A l \in LeaveSeqs :
              OccursAt(inp, b, l) => (b < a \/ b >= i)

\* every "q" of the input lies inside an alternate-screen region
DrawnInAltScreen(inp) ==
    /\ 113 \in BytesOf(inp)
    /\ \A i \in 0..(Len(inp) - 1) : At(inp, i) = 113 => InAltRegion(inp, i)

\* C21: what follows an alternate-screen enter, up to the matching leave,
\* never reaches the callback, whatever the writes and chunk boundaries:
\* a character the input holds only inside such a region is never output.
C21_AltContentSuppressed ==
    DrawnInAltScreen(input) => 113 \notin BytesOf(out)

\* C22: in the streaming cleaner's concatenated output every clear
\* separator comes after real (non-whitespace) content and before further
\* real content; the output never begins or ends with one.
C22_StreamSeparatorBetweenContent ==
    \A i \in 0..(Len(out) - Len(CLEAR_SEPARATOR)) :
        OccursAt(out, i, CLEAR_SEPARATOR) =>
            /\ ~IsBlank(Slice(out, 0, i))
            /\ ~IsBlank(Slice(out, i + Len(CLEAR_SEPARATOR), Len(out)))

-----------------------------------------------------------------------------
(* C23, C25: what the alternate-screen pass discards.                       *)

AltSeqAt(c, i) == AltLenAt(c, i) > 0
IsEnterAt(c, i) == AltSeqAt(c, i) /\ At(c, i + AltLenAt(c, i) - 1) = 104
IsLeaveAt(c, i) == AltSeqAt(c, i) /\ At(c, i + AltLenAt(c, i) - 1) = 108
AltOffsets(c) == {b \in EscOffsets(c) : AltSeqAt(c, b)}
AltBefore(c, a) == {b \in AltOffsets(c) : b < a}
LastAltBefore(c, a) == CHOOSE b \in AltBefore(c, a) : \A b2 \in AltBefore(c, a) : b2 <= b

\* the end of the alternate-screen sequence handled before offset a
PrevAltEnd(c, a) ==
    IF AltBefore(c, a) = {} THEN 0
    ELSE LastAltBefore(c, a) + AltLenAt(c, LastAltBefore(c, a))

\* offset a is outside every alternate-screen region: the sequence before
\* it, if any, is a leave
OutsideAlt(c, a) == AltBefore(c, a) = {} \/ IsLeaveAt(c, LastAltBefore(c, a))
OutsideEnters(c) == {a \in AltOffsets(c) : IsEnterAt(c, a) /\ OutsideAlt(c, a)}

LeavesAfter(c, a) == {b \in AltOffsets(c) : b > a /\ IsLeaveAt(c, b)}
MatchingLeave(c, a) == CHOOSE b \in LeavesAfter(c, a) : \A b2 \in LeavesAfter(c, a) : b <= b2
\* the end of the region opened at a: past its leave, or the end of content
RegionEnd(c, a) ==
    IF LeavesAfter(c, a) = {} THEN Len(c)
    ELSE MatchingLeave(c, a) + AltLenAt(c, MatchingLeave(c, a))

\* the clears that lie wholly between the previous sequence and the enter
ClearsBefore(c, a) ==
    {j \in 1..Len(ClearMatches(c)) :
        /\ ClearMatches(c)[j].start >= PrevAltEnd(c, a)
        /\ ClearMatches(c)[j].end <= a}
DiscardFrom(c, a) ==
    IF ClearsBefore(c, a) = {} THEN a
    ELSE LET j == CHOOSE x \in ClearsBefore(c, a) : \A y \in ClearsBefore(c, a) : x <= y
         IN ClearMatches(c)[j].start

WithAltSeparator(kept, rest, left) ==
    IF left /\ ~IsBlank(kept) /\ ~IsBlank(rest) THEN kept \o AltScreenSeparator ELSE kept

\* the text kept around the regions opened at the offsets as, in order
RECURSIVE KeptAround(_, _, _)
KeptAround(c, as, kept) ==
    IF as = <<>> THEN kept
    ELSE KeptAround(c, Tail(as),
             WithAltSeparator(
                 kept \o Slice(c, PrevAltEnd(c, Head(as)), DiscardFrom(c, Head(as))),
                 Slice(c, RegionEnd(c, Head(as)), Len(c)),
                 LeavesAfter(c, Head(as)) # {}))

\* the input without its regions: each region runs from DiscardFrom to
\* RegionEnd, and the text after the last sequence is kept when it is a leave
WithoutRegions(c) ==
    IF AltOffsets(c) = {} THEN c
    ELSE KeptAround(c, SortedSeq(OutsideEnters(c)), <<>>)
           \o (IF IsLeaveAt(c, LastAltBefore(c, Len(c)))
               THEN Slice(c, PrevAltEnd(c, Len(c)), Len(c)) ELSE <<>>)

StrayLeaves(c) == {b \in AltOffsets(c) : IsLeaveAt(c, b) /\ OutsideAlt(c, b)}
RegionOffsets(c) ==
    UNION {DiscardFrom(c, a)..(RegionEnd(c, a) - 1) : a \in OutsideEnters(c)}
      \cup UNION {b..(b + AltLenAt(c, b) - 1) : b \in StrayLeaves(c)}
KeptOffsets(c) == (0..(Len(c) - 1)) \ RegionOffsets(c)

TextAt(c, offs) == [i \in 1..Len(offs) |-> c[offs[i] + 1]]
OutsideRegions(c) == TextAt(c, SortedSeq(KeptOffsets(c)))

\* text with every occurrence of sep taken out
RECURSIVE WithoutSeparators(_, _)
WithoutSeparators(text, sep) ==
    IF text = <<>> THEN <<>>
    ELSE IF HasPrefix(text, sep)
         THEN WithoutSeparators(Slice(text, Len(sep), Len(text)), sep)
    ELSE <<Head(text)>> \o WithoutSeparators(Tail(text), sep)

InKeptRegion(m, dst, c, o) ==
    \E j \in 1..Len(m.regions) :
        /\ m.regions[j].srcStart <= o /\ o < m.regions[j].srcEnd
        /\ At(dst, m.regions[j].dstStart + (o - m.regions[j].srcStart)) = At(c, o)

\* C25: NeutralizeAltScreenSequences discards only what belongs to an
\* alternate-screen region (from the enter, or the earliest clear before it,
\* through the matching leave or the end of content); a leave met outside a
\* region removes just that sequence; the offset-tracking variant returns
\* the same text and keeps every offset outside the regions in a region of
\* its mapper.
C25_OnlyRegionsDiscarded ==
    /\ op = "alt" =>
          WithoutSeparators(res.text, AltScreenSeparator) = OutsideRegions(content)
    /\ op = "offsets" =>
          /\ res.inter = NeutralizeAltScreenSequences(content)
          /\ \A o \in KeptOffsets(content) : InKeptRegion(res.map1, res.inter, content, o)

-----------------------------------------------------------------------------
(* C24: what the metadata strippers remove.                                 *)

\* lines i+1..j of the input are kept; the lines before are header lines and
\* the lines after are footer lines or blank
OnlyMetadataOutside(lines, i, j) ==
    /\ \A n \in 1..i : IsHeaderLine(lines[n])
    /\ \A n \in (j + 1)..Len(lines) : IsFooterLine(lines[n]) \/ IsBlank(lines[n])

KeptAs(lines, i, j, full) ==
    IF full
    THEN NeutralizeClearSequences(NeutralizeAltScreenSequences(JoinLines(SubSeq(lines, i + 1, j))))
    ELSE JoinLines(SubSeq(lines, i + 1, j))

RemovesOnlyMetadata(c, r, full) ==
    \E i \in 0..Len(SplitLines(c)) : \E j \in i..Len(SplitLines(c)) :
        /\ OnlyMetadataOutside(SplitLines(c), i, j)
        /\ r = KeptAs(SplitLines(c), i, j, full)

\* C24: both metadata strippers remove only metadata: every line removed at
\* the head begins with a header marker and every line removed at the tail
\* begins with a footer marker or is blank; no other line is removed.
C24_OnlyMetadataRemoved ==
    /\ stripOp = "only" => RemovesOnlyMetadata(stripInput, stripOnce, FALSE)
    /\ stripOp = "full" => RemovesOnlyMetadata(stripInput, stripOnce, TRUE)

-----------------------------------------------------------------------------
(* C26: the cursors of ExtractCommands.                                     *)

\* the extractor after the first n entries of es
RECURSIVE WalkTo(_, _, _)
WalkTo(es, inp, n) ==
    IF n = 0 THEN NewExtractor ELSE ExtractStep(WalkTo(es, inp, n - 1), es[n], inp)

CursorsKept(before, after, e, inp) ==
    /\ 0 <= after.inputOffset /\ after.inputOffset <= Len(inp)
    /\ before.inputOffset <= after.inputOffset
    /\ e.Type = "I" =>
          after.inputOffset - before.inputOffset
              = Min(e.ByteCount, Len(inp) - before.inputOffset)
    /\ before.outputOffset <= after.outputOffset

WalkKeepsCursors(es, inp) ==
    /\ ~SliceFault(es, inp)
    /\ \A n \in 1..Len(es) :
          CursorsKept(WalkTo(es, inp, n - 1), WalkTo(es, inp, n), es[n], inp)

\* C26: on every entry list Parse returns, ExtractCommands keeps its input
\* cursor within the keystroke buffer and never moves it backwards, each
\* Input entry consumes min(byte count, bytes remaining) bytes, the output
\* counter never decreases, and the walk takes no faulting slice.
C26_CursorsInRange ==
    (buildState \in {"parsed", "returned", "panicked"} /\ parseErr = 0)
        => WalkKeepsCursors(parsed, StripMetadataOnly(buildInput))

-----------------------------------------------------------------------------
(* C27: the offset-tracking pipeline against the plain one.                 *)

\* C27: the content NeutralizeAllWithOffsets returns is that of
\* NeutralizeClearSequences applied to NeutralizeAltScreenSequences, and
\* StripMetadata returns the content NeutralizeAllWithOffsets gives for the
\* result of StripMetadataOnly.
C27_OffsetsRefinePlain ==
    /\ op = "offsets" =>
          res.text = NeutralizeClearSequences(NeutralizeAltScreenSequences(content))
    /\ op = "strip" =>
          res.text = NeutralizeAllWithOffsets(StripMetadataOnly(content)).text

\* a framed recording with a clear in it, through both pipelines
C27_Witness ==
    /\ op \in {"offsets", "strip"}
    /\ content = HeaderText \o <<104, 105>> \o TokClear \o <<121, 111>> \o FooterText
    /\ Contains(res.text, ClearSeparator)
    /\ ~ContainsAny(res.text, ClearLits)

-----------------------------------------------------------------------------
(* C28: the regions of the offset mappers.                                  *)

RegionLen(r) == r.srcEnd - r.srcStart
ImageOf(r) == r.dstStart..(r.dstStart + RegionLen(r) - 1)
Images(m) == UNION {ImageOf(m.regions[j]) : j \in 1..Len(m.regions)}

RegionsOrdered(m) ==
    \A j \in 1..(Len(m.regions) - 1) :
        /\ m.regions[j].srcStart <= m.regions[j + 1].srcStart
        /\ m.regions[j].srcEnd <= m.regions[j + 1].srcStart
        /\ m.regions[j].dstStart <= m.regions[j + 1].dstStart

RegionsInBounds(m, src, dst) ==
    /\ m.dstLen = Len(dst)
    /\ \A j \in 1..Len(m.regions) :
          /\ 0 <= m.regions[j].srcStart
          /\ m.regions[j].srcStart <= m.regions[j].srcEnd
          /\ m.regions[j].srcEnd <= Len(src)
          /\ 0 <= m.regions[j].dstStart
          /\ m.regions[j].dstStart + RegionLen(m.regions[j]) <= Len(dst)

RegionsVerbatim(m, src, dst) ==
    \A j \in 1..Len(m.regions) : \A n \in 0..(RegionLen(m.regions[j]) - 1) :
        At(dst, m.regions[j].dstStart + n) = At(src, m.regions[j].srcStart + n)

\* the destination offset d lies in an occurrence of sep that no region covers
InSeparator(m, dst, sep, d) ==
    \E s \in (d - Len(sep) + 1)..d :
        /\ OccursAt(dst, s, sep)
        /\ (s..(s + Len(sep) - 1)) \cap Images(m) = {}

RestIsSeparator(m, dst, sep) ==
    \A d \in (0..(Len(dst) - 1)) \ Images(m) : InSeparator(m, dst, sep, d)

RegionsSound(m, src, dst, sep) ==
    /\ RegionsOrdered(m)
    /\ RegionsInBounds(m, src, dst)
    /\ RegionsVerbatim(m, src, dst)
    /\ RestIsSeparator(m, dst, sep)

\* C28: after each offset-tracking pass the regions of its mapper are sorted
\* by srcStart, do not overlap, have non-decreasing dstStart, lie within the
\* source and the destination, and each is a verbatim copy of its source
\* bytes; every destination byte outside the regions belongs to an inserted
\* separator.
C28_RegionsSound ==
    op = "offsets" =>
        /\ RegionsSound(res.map1, content, res.inter, AltScreenSeparator)
        /\ RegionsSound(res.map2, res.inter, res.text, ClearSeparator)

\* both passes kept two regions and put a separator between them
C28_Witness ==
    /\ op = "offsets"
    /\ Len(res.map1.regions) >= 2
    /\ Len(res.map2.regions) >= 2
    /\ Contains(res.text, AltScreenSeparator)
    /\ Contains(res.text, ClearSeparator)

-----------------------------------------------------------------------------
(* C29: what end leaves behind.                                             *)

\* what a call of end would hand to the callback in the current state
FurtherEndEmits == Slice(end(Cleaner).out, Len(out), Len(end(Cleaner).out))

\* C29: end invokes the callback at most once, and once it has returned the
\* header buffer, the escape carry and the trailing carry hold nothing that
\* a further end would emit.
C29_EndFlushesAll ==
    [][(~ended /\ ended') => (calls' <= calls + 1 /\ FurtherEndEmits' = <<>>)]_vars

-----------------------------------------------------------------------------
(* C30: the order of the table of contents.                                 *)

NonNegativeCounts == \A i \in 1..Len(parsed) : parsed[i].ByteCount >= 0

\* C30: for a timing log whose byte counts are all non-negative, the entries
\* BuildTOC returns have non-decreasing Line values in the returned order.
C30_LinesNonDecreasing ==
    (buildState = "returned" /\ NonNegativeCounts) =>
        \A i \in 1..(Len(buildResult) - 1) :
            buildResult[i].Line <= buildResult[i + 1].Line

\* two commands, the second typed after output that crossed the
\* alternate-screen separator
C30_Witness ==
    /\ buildState = "returned"
    /\ NonNegativeCounts
    /\ Len(buildResult) = 2
    /\ buildResult[1].Line = 0
    /\ buildResult[2].Line > 1

-----------------------------------------------------------------------------
(* C31: the text of a command.                                              *)

\* byte p of the line t belongs to an escape sequence: it is an ESC, or it
\* follows ESC [ with only parameter and intermediate bytes in between
InSequence(t, p) ==
    \E e \in EscOffsets(t) :
        \/ p = e
        \/ /\ e < p
           /\ At(t, e + 1) = 91
           /\ \A q \in (e + 2)..(p - 1) : At(t, q) >= 32 /\ At(t, q) <= 63

\* the printable bytes of the line outside its escape sequences
TypedText(t) ==
    TextAt(t, SortedSeq({p \in 0..(Len(t) - 1) : t[p + 1] >= 32 /\ ~InSequence(t, p)}))

RECURSIVE TypedTextsOfRuns(_, _)
TypedTextsOfRuns(inp, runs) ==
    IF runs = <<>> THEN <<>>
    ELSE (IF TypedText(RunText(inp, Head(runs))) = <<>>
          THEN <<>> ELSE <<TypedText(RunText(inp, Head(runs)))>>)
         \o TypedTextsOfRuns(inp, Tail(runs))

-----------------------------------------------------------------------------
(* C32: the two dialects of the timing log.                                 *)

\* the entry e is the one the line with fields fs stands for: a classic line
\* is an Output entry with the line's delay and byte count, a Header or
\* Signal line needs no byte count and has byte count 0, an Output or Input
\* line has its delay and byte count
EntryAgrees(e, fs) ==
    IF TagOf(fs) = <<>>
    THEN e = TimingEntry("O", ParseFloat(fs[1]), Atoi(fs[2]))
    ELSE IF TagOf(fs) \in {<<72>>, <<83>>}
    THEN /\ e.Type = (IF TagOf(fs) = <<72>> THEN "H" ELSE "S")
         /\ e.ByteCount = 0
         /\ FloatOk(fs[2]) => e.Delay = ParseFloat(fs[2])
    ELSE /\ TagOf(fs) = <<79>> => e.Type = "O"
         /\ TagOf(fs) = <<73>> => e.Type = "I"
         /\ e.Delay = ParseFloat(fs[2])
         /\ e.ByteCount = Atoi(fs[3])

\* es holds one entry for each of the non-blank lines numbered nb, in order
EntriesAgree(es, lines, nb) ==
    /\ Len(es) = Len(nb)
    /\ \A i \in 1..Len(nb) : EntryAgrees(es[i], Fields(TrimSpace(lines[nb[i]])))

\* C32: while Parse has not failed, the entries it holds are those of the
\* non-blank lines read so far, one each and in file order: a line whose
\* first field is one non-digit character is read as advanced dialect, every
\* other line as a classic Output line.
C32_DialectsParsed ==
    (buildState # "failed" /\ parseErr = 0) =>
        EntriesAgree(parsed, ScanLines(timingText),
                     SortedSeq(NonBlankOf(SubSeq(ScanLines(timingText), 1, lineNum))))

\* a classic line that starts with one digit, a blank line and a short
\* header record, parsed
C32_Witness ==
    /\ buildState = "parsed"
    /\ timingText = JoinLines(<<TL_Digit, TL_Blank, TL_Header>>)
    /\ Len(parsed) = 2
    /\ parsed[1] = TimingEntry("O", 5000000, 1)
    /\ parsed[2].Type = "H" /\ parsed[2].ByteCount = 0

-----------------------------------------------------------------------------
(* C33: the entries of Parse against the data model.                        *)

ConformsToDataModel(e) == e.Type \in {"O", "I", "H", "S"} /\ e.ByteCount >= 0

\* C33: every entry Parse returns has one of the kinds Output, Input, Header
\* and Signal and a non-negative byte count; a line with another tag or a
\* negative byte count makes Parse fail.
C33_EntriesConform ==
    buildState = "parsed" => \A i \in 1..Len(parsed) : ConformsToDataModel(parsed[i])

-----------------------------------------------------------------------------
(* C34: the entries that are neither Output nor Input.                      *)

IsHeaderOrSignal(e) == e.Type \in {"H", "S"}
IsCounted(e) == ~IsHeaderOrSignal(e)

\* what the iteration on entry e may change
EntryFrame(e) ==
    /\ IsHeaderOrSignal(e) =>
          UNCHANGED <<outputOffset, inputOffset, currentInput, commandOutputOffset,
                      commands>>
    /\ e.Type = "O" =>
          UNCHANGED <<inputOffset, currentInput, commandOutputOffset, commands>>

\* C34: an iteration of ExtractCommands on a Header or Signal entry changes
\* neither the output counter, the input cursor nor the command buffer, an
\* iteration on an Output entry changes the output counter only, and the
\* commands returned are those of the entry list without its Header and
\* Signal entries.
C34_HeaderSignalInert ==
    [][/\ idx' = idx + 1 => EntryFrame(entries[idx])
       /\ cmdDone' =>
             commands' = ExtractCommands(SelectSeq(entries, IsCounted), inputContent)]_vars

\* a Header and a Signal entry between the keystrokes of a command
C34_Witness ==
    /\ cmdDone
    /\ Len(entries) = 4
    /\ entries[1].Type = "I" /\ entries[2].Type = "H"
    /\ entries[3].Type = "S" /\ entries[4].Type = "I"
    /\ inputContent = KeyL \o KeyCR
    /\ Len(commands) = 1

-----------------------------------------------------------------------------
(* C35: the detectors as stateless matchers.                                *)

\* C35: whatever lastIndex an earlier call left in clearPattern or
\* altScreenPattern, each of two cleaners that share the two objects and are
\* written and ended in any interleaving is, after every call, in the state
\* it is in when the same calls are made on it with pattern objects of its
\* own, and in the state it is in when every search starts at offset 0: in
\* particular it has passed the same text to its callback.
C35_SharedPatternsStateless ==
    \A x \in DOMAIN pairCleaner :
        /\ pairCleaner[x] = pairAlone[x].c
        /\ pairCleaner[x] = pairFresh[x]

\* a call on one cleaner ran the alternate-screen detector while
\* altScreenPattern.lastIndex was where a call on the other cleaner had left
\* it, an enter lying before that offset in the text it searched
C35_Witness ==
    /\ crossStale
    /\ pairInput = <<TokA \o TokEnter, TokEnter \o TokQ \o TokLeave \o <<98>>>>
    /\ pairEnded = <<TRUE, TRUE>>
    /\ pairCleaner[1].out = TokA
    /\ pairCleaner[2].out = ALT_SCREEN_SEPARATOR \o <<98>>

-----------------------------------------------------------------------------
(* C36: the invariants of the streaming cleaner's state.                   *)

\* a separator is owed only once content went out, and whitespace is held
\* back only while a separator is owed
FlagsConsistent ==
    /\ pendingSeparator => hasEmittedContent
    /\ pendingWhitespace # <<>> => pendingSeparator

\* once header handling is complete: the trailing carry fits the window, and
\* the escape carry is empty or starts at an ESC less than EscapeWindow
\* characters before the end of what was written
CarriesBounded ==
    headerStripped =>
        /\ Len(trailingBuffer) <= TRAILING_SIZE
        /\ Len(escapeBuffer) < EscapeWindow
        /\ escapeBuffer # <<>> => Head(escapeBuffer) = 27

\* the two flags that are only ever set
FlagsOnlySet ==
    /\ hasEmittedContent => hasEmittedContent'
    /\ headerStripped => headerStripped'

\* C36: in every state of the streaming cleaner pendingSeparator implies
\* hasEmittedContent and a non-empty pendingWhitespace implies
\* pendingSeparator; no call turns hasEmittedContent or headerStripped from
\* true to false; and once a write has completed header handling,
\* trailingBuffer holds at most 500 characters and escapeBuffer is empty or
\* holds fewer than 10 characters of which the first is ESC.
C36_CleanerStateInvariants ==
    /\ [](FlagsConsistent /\ CarriesBounded)
    /\ [][FlagsOnlySet]_vars

\* after one write: content went out, a separator is owed, a space is held
\* back, the trailing carry is full and the escape carry holds ESC [
C36_Witness ==
    /\ input = OwedBeforeWindow /\ pos = Len(input) /\ ~ended
    /\ headerStripped /\ hasEmittedContent /\ pendingSeparator
    /\ pendingWhitespace = TokSp
    /\ Len(trailingBuffer) = TRAILING_SIZE
    /\ escapeBuffer = <<27, 91>>
    /\ out = TokA

=============================================================================
